---- MODULE Spec2Model ----
(***************************************************************************)
(* Model of the availability-intersection engine and the preference store  *)
(* of the planning agent (src/agent/agentkit/tools.py, src/agentkit/       *)
(* tools.py, src/telegram_bot/bot.py, src/bot.py).                         *)
(*                                                                         *)
(* Times are the "HH:MM" strings of the program, written as minutes since  *)
(* midnight: the program compares zero-padded "HH:MM" strings              *)
(* lexicographically, which is the numeric order of the minutes.           *)
(* A slot or interval [start, end] is the pair <<start, end>>.             *)
(***************************************************************************)
EXTENDS Integers, Sequences, FiniteSets, TLC

VARIABLES
    users,        \* table users: telegram_id -> row (preferences column), or NoRow
    busy_hours,   \* table busy_hours: rows in rowid (insertion) order
    fsm_state,    \* aiogram FSM state of each chat: "none", "WAITING_PREFERENCES" or "WAITING_TEAM_CODE"
    alg_pc,       \* position of the interval-algebra call under evaluation
    alg_call,     \* the arguments of that call
    alg_ret,      \* its return value
    alg_ret2,     \* return value of the follow-up call (re-inversion, swapped overlap)
    USERS,        \* in-memory variant: user_id -> {"preferences", "availability"}, or absent
    EVENTS,       \* in-memory variant: the catalog of events
    rag_result,   \* what get_nearest_events returned to the last suggestion tool call
    sugg_ret,     \* the outcome of the last suggestion tool call (database variant)
    messages,     \* AgentState["messages"] of one run of the agent graph
    llm_calls,    \* AgentState["llm_calls"]
    graph_pc,     \* the node the graph runs next: "assistant", "tools", "end", or "raised"
    upd_pc,       \* position of the update_user_profile_db call in flight, or "idle"
    upd_call,     \* its arguments, its local existing_prefs, and the tables as it found them
    observed,     \* what the last tool call returned or the last handler answered
    teams,        \* table teams: rows (team_id) in rowid order, the row id being the position
    team_of,      \* column users.team_id of each telegram id: a teams row id, or 0 for NULL
    team_req,     \* the Create Team request of each chat: its position and its locals
    upd_calls     \* concurrent update_user_profile_db calls: position and locals of each

storeVars == <<users, busy_hours>>
botVars == <<fsm_state>>
algVars == <<alg_pc, alg_call, alg_ret, alg_ret2>>
memVars == <<USERS, EVENTS>>
suggVars == <<rag_result, sugg_ret>>
nodeVars == <<messages, llm_calls, graph_pc>>
concVars == <<upd_pc, upd_call, observed>>
teamVars == <<teams, team_of, team_req>>
raceVars == <<upd_calls>>
vars == <<users, busy_hours, fsm_state, alg_pc, alg_call, alg_ret, alg_ret2, USERS, EVENTS,
          rag_result, sugg_ret, messages, llm_calls, graph_pc, upd_pc, upd_call, observed,
          teams, team_of, team_req, upd_calls>>

----------------------------------------------------------------------------
(* Bounds of the model *)

\* longest busy list handed to invert_busy_to_free
MaxBusy == 3
\* longest interval list handed to _overlap_two_day_slots
MaxOvLen == 2
\* longest add_preferences and remove_preferences list of one call
MaxTags == 2
\* most rows the busy_hours table holds
MaxRows == 2
\* most slots one update_user_profile_db call adds
MaxAdd == 1
\* longest list of telegram ids handed to find_common_availability
MaxUsers == 2

----------------------------------------------------------------------------
(* Program constants *)

\* default day window of invert_busy_to_free: day_start="08:00", day_end="22:00"
DayStart == 480
DayEnd == 1320

----------------------------------------------------------------------------
(* Helpers *)

Max(a, b) == IF a >= b THEN a ELSE b
Min(a, b) == IF a <= b THEN a ELSE b

Range(s) == {s[i] : i \in 1..Len(s)}

\* the grid cells [t, next t) an interval covers; every endpoint lies on the grid
Cells(iv, grid) == {t \in grid : iv[1] <= t /\ t < iv[2]}

\* the cells covered by some interval of a list
Coverage(slots, grid) == UNION {Cells(slots[i], grid) : i \in 1..Len(slots)}

\* the dict with the keys of f and f's values, each value computed once
RECURSIVE DictOver(_, _)
DictOver(f, keys) ==
    IF keys = {} THEN <<>>
    ELSE LET k == CHOOSE x \in keys : TRUE
         IN IF keys = {k} THEN k :> f[k] ELSE (k :> f[k]) @@ DictOver(f, keys \ {k})

Dict(f) == DictOver(f, DOMAIN f)

\* all sequences over S of length at most n
RECURSIVE SeqsUpTo(_, _)
SeqsUpTo(S, n) ==
    IF n = 0 THEN {<<>>}
    ELSE LET shorter == SeqsUpTo(S, n - 1)
         IN shorter \cup {Append(q, x) : q \in {r \in shorter : Len(r) = n - 1}, x \in S}

----------------------------------------------------------------------------
(* Interval algebra: src/agent/agentkit/tools.py lines 30-62 *)

\* inner loop of _overlap_two_day_slots: one interval of slots_a against slots_b[j..]
RECURSIVE OverlapInner(_, _, _, _)
OverlapInner(ia, slots_b, j, overlaps) ==
    IF j > Len(slots_b) THEN overlaps
    ELSE LET start == Max(ia[1], slots_b[j][1])
             end == Min(ia[2], slots_b[j][2])
         IN OverlapInner(ia, slots_b, j + 1,
                         IF start < end THEN Append(overlaps, <<start, end>>) ELSE overlaps)

\* outer loop of _overlap_two_day_slots
RECURSIVE OverlapOuter(_, _, _, _)
OverlapOuter(slots_a, slots_b, i, overlaps) ==
    IF i > Len(slots_a) THEN overlaps
    ELSE OverlapOuter(slots_a, slots_b, i + 1, OverlapInner(slots_a[i], slots_b, 1, overlaps))

\* a plausible slip: the overlap starts at the first interval's start instead of the later start
OverlapTwoDaySlots_FirstStart(slots_a, slots_b) ==
    LET RECURSIVE inner(_, _, _)
        inner(ia, j, acc) ==
            IF j > Len(slots_b) THEN acc
            ELSE LET start == ia[1]
                     end == Min(ia[2], slots_b[j][2])
                 IN inner(ia, j + 1, IF start < end THEN Append(acc, <<start, end>>) ELSE acc)
        RECURSIVE outer(_, _)
        outer(i, acc) ==
            IF i > Len(slots_a) THEN acc ELSE outer(i + 1, inner(slots_a[i], 1, acc))
    IN outer(1, <<>>)

\* _overlap_two_day_slots(slots_a, slots_b)
OverlapTwoDaySlots(slots_a, slots_b) == OverlapOuter(slots_a, slots_b, 1, <<>>)

\* sorted(busy_slots, key=lambda x: x[0]): a stable sort by start; x goes after
\* every element already placed whose start is not greater
RECURSIVE InsertByStart(_, _, _)
InsertByStart(sorted, x, i) ==
    IF i > Len(sorted) THEN Append(sorted, x)
    ELSE IF sorted[i][1] > x[1]
         THEN SubSeq(sorted, 1, i - 1) \o <<x>> \o SubSeq(sorted, i, Len(sorted))
         ELSE InsertByStart(sorted, x, i + 1)

RECURSIVE SortByStart(_)
SortByStart(slots) ==
    IF slots = <<>> THEN <<>>
    ELSE InsertByStart(SortByStart(SubSeq(slots, 1, Len(slots) - 1)), slots[Len(slots)], 1)

\* the sweep of invert_busy_to_free over busy_sorted[i..]
RECURSIVE Sweep(_, _, _, _)
Sweep(busy_sorted, i, current_start, free_slots) ==
    IF i > Len(busy_sorted) THEN [current_start |-> current_start, free_slots |-> free_slots]
    ELSE LET s == busy_sorted[i][1]
             e == busy_sorted[i][2]
             free1 == IF s > current_start THEN Append(free_slots, <<current_start, s>>)
                      ELSE free_slots
             cs1 == IF e > current_start THEN Max(current_start, e) ELSE current_start
         IN Sweep(busy_sorted, i + 1, cs1, free1)

\* a plausible slip: a busy slot starting exactly at current_start also emits an interval
RECURSIVE SweepGE(_, _, _, _)
SweepGE(busy_sorted, i, current_start, free_slots) ==
    IF i > Len(busy_sorted) THEN [current_start |-> current_start, free_slots |-> free_slots]
    ELSE LET s == busy_sorted[i][1]
             e == busy_sorted[i][2]
             free1 == IF s >= current_start THEN Append(free_slots, <<current_start, s>>)
                      ELSE free_slots
             cs1 == IF e > current_start THEN Max(current_start, e) ELSE current_start
         IN SweepGE(busy_sorted, i + 1, cs1, free1)

InvertBusyToFree_EmitGE(busy_slots, day_start, day_end) ==
    LET sw == SweepGE(SortByStart(busy_slots), 1, day_start, <<>>)
    IN IF sw.current_start < day_end
       THEN Append(sw.free_slots, <<sw.current_start, day_end>>)
       ELSE sw.free_slots

\* a plausible slip: the last interval is emitted also when current_start = day_end
InvertBusyToFree_LastLE(busy_slots, day_start, day_end) ==
    LET sw == Sweep(SortByStart(busy_slots), 1, day_start, <<>>)
    IN IF sw.current_start <= day_end
       THEN Append(sw.free_slots, <<sw.current_start, day_end>>)
       ELSE sw.free_slots

\* invert_busy_to_free(busy_slots, day_start, day_end)
InvertBusyToFree(busy_slots, day_start, day_end) ==
    LET sw == Sweep(SortByStart(busy_slots), 1, day_start, <<>>)
    IN IF sw.current_start < day_end
       THEN Append(sw.free_slots, <<sw.current_start, day_end>>)
       ELSE sw.free_slots

----------------------------------------------------------------------------
(* The store: table users (telegram_id, preferences) and table busy_hours    *)
(* (telegram_id, start, duration), as src/bot.py creates them                *)

Ids == {1, 2, 3}

Dates == {"2025-11-10", "2025-11-11"}

\* the preference tags tried; "" is the empty string
Tags == {"", "Sport", "TECH", "meetups", "music", "sport", "tech"}

\* str.lower()
Lower(tag) ==
    CASE tag = "Sport" -> "sport"
      [] tag = "TECH" -> "tech"
      [] OTHER -> tag

\* the order of Python's string comparison on Tags (by code point: "" first,
\* upper case before lower case; "tech" is last)
TagRank(tag) ==
    CASE tag = "" -> 0
      [] tag = "Sport" -> 1
      [] tag = "TECH" -> 2
      [] tag = "meetups" -> 3
      [] tag = "music" -> 4
      [] tag = "sport" -> 5
      [] OTHER -> 6

\* the value of the column users.preferences: NULL, or a text. A text is either a
\* JSON array of strings (it starts with "[" and json.loads accepts it) or any
\* other text, written as its fields between commas: "rock," is <<"rock", "">>.
NullText == [kind |-> "null", items |-> <<>>]
JsonText(items) == [kind |-> "json", items |-> items]
RawText(items) == [kind |-> "raw", items |-> items]

\* no row for a telegram id (the database as init_db creates it has no rows)
NoRow == [present |-> FALSE, preferences |-> NullText]

\* the row INSERT OR IGNORE INTO users (telegram_id, preferences) VALUES (?, NULL) adds
NewRow == [present |-> TRUE, preferences |-> NullText]

\* `row and row[0]`: a row exists and its text is neither NULL nor ""
Truthy(row) ==
    /\ row.present
    /\ row.preferences.kind # "null"
    /\ row.preferences # RawText(<<"">>)

\* set(json.loads(row[0])) if row[0].startswith("[") else set(row[0].split(","))
ParsePrefs(text) == Range(text.items)

\* the preference set the tools load for a telegram id
LoadPrefs(us, telegram_id) ==
    IF Truthy(us[telegram_id]) THEN ParsePrefs(us[telegram_id].preferences) ELSE {}

\* sorted(existing_prefs)
RECURSIVE SortTags(_)
SortTags(S) ==
    IF S = {} THEN <<>>
    ELSE LET m == CHOOSE x \in S : \A y \in S : TagRank(x) <= TagRank(y)
         IN <<m>> \o SortTags(S \ {m})

\* json.dumps(sorted(existing_prefs))
SerializePrefs(S) == JsonText(SortTags(S))

\* for p in add_preferences: if p: existing_prefs.add(p.lower())
RECURSIVE AddPrefs(_, _, _)
AddPrefs(prefs, add_preferences, i) ==
    IF i > Len(add_preferences) THEN prefs
    ELSE AddPrefs(IF add_preferences[i] # "" THEN prefs \cup {Lower(add_preferences[i])} ELSE prefs,
                  add_preferences, i + 1)

\* for p in remove_preferences: if p: existing_prefs.discard(p.lower())
RECURSIVE RemovePrefs(_, _, _)
RemovePrefs(prefs, remove_preferences, i) ==
    IF i > Len(remove_preferences) THEN prefs
    ELSE RemovePrefs(IF remove_preferences[i] # "" THEN prefs \ {Lower(remove_preferences[i])} ELSE prefs,
                     remove_preferences, i + 1)

\* existing_prefs after "Apply changes"
UpdatedPrefs(us, telegram_id, add_preferences, remove_preferences) ==
    RemovePrefs(AddPrefs(LoadPrefs(us, telegram_id), add_preferences, 1), remove_preferences, 1)

\* UPDATE users SET preferences = ? WHERE telegram_id = ?: changes the row if there is one
UpdatePrefsRow(us, telegram_id, text) ==
    IF us[telegram_id].present
    THEN [us EXCEPT ![telegram_id].preferences = text]
    ELSE us

\* f"{slot.date} {slot.start}": the date, a space, the start time
FormatStart(slot) == <<slot.date, slot.start>>

\* start.split(" ", 1): the text before the first space and the text after it
SplitStart(start) == [date |-> start[1], t_start |-> start[2]]

\* INSERT INTO busy_hours (telegram_id, start, duration) for each slot of add_business
RECURSIVE InsertSlots(_, _, _, _)
InsertSlots(rows, telegram_id, add_business, i) ==
    IF i > Len(add_business) THEN rows
    ELSE InsertSlots(Append(rows, [telegram_id |-> telegram_id,
                                   start |-> FormatStart(add_business[i]),
                                   duration |-> add_business[i].duration]),
                     telegram_id, add_business, i + 1)

\* DELETE FROM busy_hours WHERE telegram_id = ?
DeleteBusyHours(rows, telegram_id) == SelectSeq(rows, LAMBDA r : r.telegram_id # telegram_id)

\* SELECT start, duration FROM busy_hours WHERE telegram_id = ?
SelectBusyHours(rows, telegram_id) == SelectSeq(rows, LAMBDA r : r.telegram_id = telegram_id)

\* [t_start, t_end] of each row, in the cursor's order
RECURSIVE SlotPairs(_, _, _)
SlotPairs(rows, i, acc) ==
    IF i > Len(rows) THEN acc
    ELSE SlotPairs(rows, i + 1, Append(acc, <<SplitStart(rows[i].start).t_start, rows[i].duration>>))

\* result.setdefault(date, []).append([t_start, t_end]) over the cursor's rows
BusyByDate(rows, telegram_id) ==
    LET mine == SelectBusyHours(rows, telegram_id)
        days == {SplitStart(mine[i].start).date : i \in 1..Len(mine)}
    IN Dict([d \in days |->
                SlotPairs(SelectSeq(mine, LAMBDA r : SplitStart(r.start).date = d), 1, <<>>)])

\* get_user_free_slots(conn, telegram_id): {date: free intervals}
GetUserFreeSlots(rows, telegram_id) ==
    LET result == BusyByDate(rows, telegram_id)
    IN Dict([day \in DOMAIN result |-> InvertBusyToFree(result[day], DayStart, DayEnd)])

\* a plausible slip: the dates are united instead of intersected, so a date only
\* one side has is kept
IntersectWith_UnionDays(common, av) ==
    LET days == {day \in (DOMAIN common) \cup (DOMAIN av) :
                    \/ day \notin (DOMAIN common) \cap (DOMAIN av)
                    \/ OverlapTwoDaySlots(common[day], av[day]) # <<>>}
    IN Dict([day \in days |->
                IF day \notin DOMAIN av THEN common[day]
                ELSE IF day \notin DOMAIN common THEN av[day]
                ELSE OverlapTwoDaySlots(common[day], av[day])])

\* one round of "Intersect with each additional user"
IntersectWith(common, av) ==
    LET overlaps == Dict([day \in (DOMAIN common) \cap (DOMAIN av) |->
                             OverlapTwoDaySlots(common[day], av[day])])
    IN Dict([day \in {d \in DOMAIN overlaps : overlaps[d] # <<>>} |-> overlaps[day]])

\* the free slots get_user_free_slots returns for each id, read from the tables
\* as they stand during one query
FreeSlotsOf(rows) == Dict([telegram_id \in Ids |-> GetUserFreeSlots(rows, telegram_id)])

\* the loop `for uid in telegram_ids[1:]` from position i on, with its early exit;
\* free_of[uid] is what `await get_user_free_slots(conn, uid)` returns
RECURSIVE FoldCommon(_, _, _, _)
FoldCommon(free_of, telegram_ids, i, common) ==
    IF i > Len(telegram_ids) THEN common
    ELSE LET new_common == IntersectWith(common, free_of[telegram_ids[i]])
         IN IF DOMAIN new_common = {} THEN new_common
            ELSE FoldCommon(free_of, telegram_ids, i + 1, new_common)

\* a plausible slip: a single id is treated like no id
FindCommonAvailability_NeedsTwo(free_of, telegram_ids) ==
    IF Len(telegram_ids) < 2 THEN <<>>
    ELSE FoldCommon(free_of, telegram_ids, 2, free_of[telegram_ids[1]])

\* find_common_availability(conn, telegram_ids), given what get_user_free_slots
\* returns on conn
FindCommonAvailability(free_of, telegram_ids) ==
    IF telegram_ids = <<>> THEN <<>>
    ELSE FoldCommon(free_of, telegram_ids, 2, free_of[telegram_ids[1]])

\* table users after update_user_profile_db: "Load existing preferences", "Apply
\* changes", "Save preferences"
UsersAfterUpdate(us, telegram_id, add_preferences, remove_preferences) ==
    UpdatePrefsRow(us, telegram_id,
                   SerializePrefs(UpdatedPrefs(us, telegram_id, add_preferences, remove_preferences)))

\* table busy_hours after update_user_profile_db: the DELETE if clear_business,
\* then "Add new busy slots"
\* a plausible slip: the new slots are inserted first and the DELETE runs last
BusyHoursAfterUpdate_ClearLast(rows, telegram_id, add_business, clear_business) ==
    LET inserted == InsertSlots(rows, telegram_id, add_business, 1)
    IN IF clear_business THEN DeleteBusyHours(inserted, telegram_id) ELSE inserted

BusyHoursAfterUpdate(rows, telegram_id, add_business, clear_business) ==
    InsertSlots(IF clear_business THEN DeleteBusyHours(rows, telegram_id) ELSE rows,
                telegram_id, add_business, 1)

\* update_user_profile_db(telegram_id, add_preferences, remove_preferences,
\* add_business, clear_business), the whole call
UpdateUserProfileDb(telegram_id, add_preferences, remove_preferences, add_business, clear_business) ==
    /\ users' = UsersAfterUpdate(users, telegram_id, add_preferences, remove_preferences)
    /\ busy_hours' = BusyHoursAfterUpdate(busy_hours, telegram_id, add_business, clear_business)
    /\ Len(busy_hours') <= MaxRows
    /\ UNCHANGED <<botVars, algVars, memVars, suggVars, nodeVars, concVars, teamVars, raceVars>>

----------------------------------------------------------------------------
(* The in-memory variant (src/agentkit/tools.py): the module globals USERS    *)
(* and EVENTS and the tools that work on them                                *)

MemIds == {"u1", "u2"}

\* the order of Python's string comparison on the dates used
DayRank(day) == IF day = "2025-11-10" THEN 0 ELSE 1

\* sorted(av.keys())
RECURSIVE SortDays(_)
SortDays(S) ==
    IF S = {} THEN <<>>
    ELSE LET m == CHOOSE x \in S : \A y \in S : DayRank(x) <= DayRank(y)
         IN <<m>> \o SortDays(S \ {m})

\* user_id not in USERS
NoUser == [present |-> FALSE, preferences |-> {}, availability |-> <<>>]

\* the entry ensure_user creates: {"preferences": set(), "availability": {}}
NewUser == [present |-> TRUE, preferences |-> {}, availability |-> <<>>]

\* ensure_user(user_id)
EnsureUser(U, user_id) == IF U[user_id].present THEN U ELSE [U EXCEPT ![user_id] = NewUser]

\* `for uid in user_ids: ensure_user(uid)`
RECURSIVE EnsureUsers(_, _, _)
EnsureUsers(U, user_ids, i) ==
    IF i > Len(user_ids) THEN U
    ELSE EnsureUsers(EnsureUser(U, user_ids[i]), user_ids, i + 1)

\* the catalog refresh_events_catalog installs
Catalog ==
    << [id |-> "e1", date |-> "2025-11-10", tags |-> <<"sport">>, start |-> 1080, end |-> 1200],
       [id |-> "e2", date |-> "2025-11-10", tags |-> <<"meetups", "tech">>, start |-> 1140, end |-> 1260],
       [id |-> "e3", date |-> "2025-11-11", tags |-> <<"music">>, start |-> 1200, end |-> 1320] >>

\* av.setdefault(slot.date, []).append([slot.start, slot.end]) for each slot
RECURSIVE AppendSlots(_, _, _)
AppendSlots(av, add_availability, i) ==
    IF i > Len(add_availability) THEN av
    ELSE LET slot == add_availability[i]
             old == IF slot.date \in DOMAIN av THEN av[slot.date] ELSE <<>>
             new == Append(old, <<slot.start, slot.end>>)
         IN AppendSlots(Dict([d \in (DOMAIN av) \cup {slot.date} |->
                                  IF d = slot.date THEN new ELSE av[d]]),
                        add_availability, i + 1)

\* USERS after update_user_profile(user_id, add_preferences, remove_preferences,
\* add_availability, clear_availability)
UsersAfterMemUpdate(U, user_id, add_preferences, remove_preferences, add_availability, clear_availability) ==
    LET ensured == EnsureUser(U, user_id)
        prefs == RemovePrefs(AddPrefs(ensured[user_id].preferences, add_preferences, 1),
                             remove_preferences, 1)
        av == AppendSlots(IF clear_availability THEN <<>> ELSE ensured[user_id].availability,
                          add_availability, 1)
    IN [ensured EXCEPT ![user_id] = [present |-> TRUE, preferences |-> prefs, availability |-> av]]

\* the summary update_user_profile returns
MemUpdateSummary(U, user_id, add_preferences, remove_preferences, add_availability, clear_availability) ==
    LET after == UsersAfterMemUpdate(U, user_id, add_preferences, remove_preferences,
                                     add_availability, clear_availability)
    IN [user_id |-> user_id,
        preferences |-> SortTags(after[user_id].preferences),
        availability_days |-> SortDays(DOMAIN after[user_id].availability)]

\* USERS[uid]["availability"] of each user (an absent one gets {} from ensure_user)
MemAvailability(U) == [uid \in MemIds |-> U[uid].availability]

\* a plausible slip: strict comparisons, so a window that only touches the event counts
RECURSIVE AnySlotOverlaps_Touching(_, _, _)
AnySlotOverlaps_Touching(e, slots, i) ==
    IF i > Len(slots) THEN FALSE
    ELSE IF ~(e.end < slots[i][1] \/ slots[i][2] < e.start) THEN TRUE
    ELSE AnySlotOverlaps_Touching(e, slots, i + 1)

\* `for s, end_ in slots: if not (e["end"] <= s or end_ <= e["start"]): ... break`
RECURSIVE AnySlotOverlaps(_, _, _)
AnySlotOverlaps(e, slots, i) ==
    IF i > Len(slots) THEN FALSE
    ELSE IF ~(e.end <= slots[i][1] \/ slots[i][2] <= e.start) THEN TRUE
    ELSE AnySlotOverlaps(e, slots, i + 1)

\* a plausible slip: the preference filter is left out
EventMatches_NoTagGate(e, prefs, av) ==
    IF e.date \notin DOMAIN av THEN FALSE
    ELSE AnySlotOverlaps(e, av[e.date], 1)

\* one round of `for e in EVENTS`: is e appended to matches
EventMatches(e, prefs, av) ==
    IF prefs # {} /\ prefs \cap Range(e.tags) = {} THEN FALSE
    ELSE IF e.date \notin DOMAIN av THEN FALSE
    ELSE AnySlotOverlaps(e, av[e.date], 1)

\* the loop `for e in EVENTS` of both suggestion tools
RECURSIVE MatchLoop(_, _, _, _, _)
MatchLoop(events, prefs, av, i, matches) ==
    IF i > Len(events) THEN matches
    ELSE MatchLoop(events, prefs, av, i + 1,
                   IF EventMatches(events[i], prefs, av) THEN Append(matches, events[i]) ELSE matches)

\* get_personal_event_suggestions(user_id): the returned payload
GetPersonalEventSuggestions(U, E, user_id) ==
    LET ensured == EnsureUser(U, user_id)
    IN [user_id |-> user_id,
        events |-> MatchLoop(E, ensured[user_id].preferences, ensured[user_id].availability, 1, <<>>)]

\* all(prefs_sets): every set is non-empty
AllTruthy(prefs_sets) == \A i \in 1..Len(prefs_sets) : prefs_sets[i] # {}

\* set.intersection(*prefs_sets): the first set intersected with each further one
RECURSIVE SetIntersection(_, _, _)
SetIntersection(prefs_sets, i, acc) ==
    IF i > Len(prefs_sets) THEN acc
    ELSE SetIntersection(prefs_sets, i + 1, acc \cap prefs_sets[i])

\* a plausible slip: the sets are united
SharedPrefs_Union(prefs_sets) == UNION Range(prefs_sets)

\* set.intersection(*prefs_sets) if all(prefs_sets) else set()
SharedPrefs(prefs_sets) ==
    IF AllTruthy(prefs_sets) THEN SetIntersection(prefs_sets, 2, prefs_sets[1]) ELSE {}

\* [USERS[uid]["preferences"] for uid in user_ids]
PrefsSets(U, user_ids) == [i \in 1..Len(user_ids) |-> U[user_ids[i]].preferences]

\* get_joint_event_suggestions(user_ids): the returned payload
GetJointEventSuggestions(U, E, user_ids) ==
    IF Len(user_ids) < 2
    THEN [error |-> "Provide at least two user_ids to get joint suggestions."]
    ELSE LET ensured == EnsureUsers(U, user_ids, 1)
             shared_prefs == SharedPrefs(PrefsSets(ensured, user_ids))
             common_av == FindCommonAvailability(MemAvailability(ensured), user_ids)
         IN [user_ids |-> user_ids,
             shared_preferences |-> SortTags(shared_prefs),
             shared_availability_days |-> SortDays(DOMAIN common_av),
             events |-> MatchLoop(E, shared_prefs, common_av, 1, <<>>)]

\* update_user_profile, the whole call
UpdateUserProfile(user_id, add_preferences, remove_preferences, add_availability, clear_availability) ==
    /\ USERS' = UsersAfterMemUpdate(USERS, user_id, add_preferences, remove_preferences,
                                    add_availability, clear_availability)
    /\ UNCHANGED <<EVENTS, storeVars, botVars, algVars, suggVars, nodeVars, concVars, teamVars, raceVars>>

\* refresh_events_catalog(): EVENTS.clear(); EVENTS.extend([...])
RefreshEventsCatalog ==
    /\ EVENTS' = Catalog
    /\ UNCHANGED <<USERS, storeVars, botVars, algVars, suggVars, nodeVars, concVars, teamVars, raceVars>>

\* get_personal_event_suggestions(user_id): ensure_user is its only write
GetPersonalSuggestions(user_id) ==
    /\ USERS' = EnsureUser(USERS, user_id)
    /\ UNCHANGED <<EVENTS, storeVars, botVars, algVars, suggVars, nodeVars, concVars, teamVars, raceVars>>

\* get_joint_event_suggestions(user_ids): with fewer than two ids it returns at
\* once, otherwise ensure_user on each id is its only write
GetJointSuggestions(user_ids) ==
    /\ USERS' = IF Len(user_ids) < 2 THEN USERS ELSE EnsureUsers(USERS, user_ids, 1)
    /\ UNCHANGED <<EVENTS, storeVars, botVars, algVars, suggVars, nodeVars, concVars, teamVars, raceVars>>

----------------------------------------------------------------------------
(* The agent's tools on the database init_db creates: busy hours are added   *)
(* and cleared by update_user_profile_db and read by find_common_availability *)

\* busy slots a call may add: "09:00"-"11:00", "08:00"-"09:30", the whole day
\* window "08:00"-"22:00", and "22:30"-"23:00" after the window
BusyChoices == {<<540, 660>>, <<480, 570>>, <<480, 1320>>, <<1350, 1380>>}

\* Slot(date, start, duration) arguments; duration holds the end time
SlotInputs == {[date |-> d, start |-> c[1], duration |-> c[2]] : d \in Dates, c \in BusyChoices}

\* every endpoint a stored slot or the day window has
StoreTimes == {480, 540, 570, 660, 1320, 1350, 1380}

InitAlgebraIdle ==
    /\ alg_pc = "idle"
    /\ alg_call = [fn |-> "none", busy |-> <<>>, day_start |-> 0, day_end |-> 0, a |-> <<>>, b |-> <<>>]
    /\ alg_ret = <<>>
    /\ alg_ret2 = <<>>

\* the database as init_db creates it
InitStore ==
    /\ users = [id \in Ids |-> NoRow]
    /\ busy_hours = <<>>
    /\ fsm_state = [id \in Ids |-> "none"]

\* the module globals as the import leaves them: USERS = {}, EVENTS = []
InitMem ==
    /\ USERS = [uid \in MemIds |-> NoUser]
    /\ EVENTS = <<>>

\* no suggestion tool has been called
InitSugg ==
    /\ rag_result = <<>>
    /\ sugg_ret = [tool |-> "none"]

\* a run of the graph starts at the assistant node with the user's message
\* (bot.py builds the payload: one HumanMessage, llm_calls 0)
InitNode ==
    /\ messages = <<[type |-> "human"]>>
    /\ llm_calls = 0
    /\ graph_pc = "assistant"

\* no update_user_profile_db call is in flight and no reader has been called
InitConc ==
    /\ upd_pc = "idle"
    /\ upd_call = [telegram_id |-> 0]
    /\ observed = [tool |-> "none"]

\* the chats that send Create Team, and the calls that run side by side
TeamUsers == {1, 2}
CallIds == {"a", "b"}

\* no team yet, no user in a team, no Create Team request under way
InitTeams ==
    /\ teams = <<>>
    /\ team_of = [id \in Ids |-> 0]
    /\ team_req = [id \in TeamUsers |-> [pc |-> "idle", code |-> 0, team_row_id |-> 0]]

\* no update_user_profile_db call under way
InitRace ==
    upd_calls = [c \in CallIds |->
                    [pc |-> "idle", telegram_id |-> 0, tag |-> "", had_row |-> FALSE, existing_prefs |-> {}]]

Init ==
    /\ InitStore /\ InitAlgebraIdle /\ InitMem /\ InitSugg /\ InitNode /\ InitConc
    /\ InitTeams /\ InitRace

\* a tool call that records busy hours (no preference is named)
UpdateBusyHours ==
    \E telegram_id \in Ids, add_business \in SeqsUpTo(SlotInputs, MaxAdd), clear_business \in BOOLEAN :
        UpdateUserProfileDb(telegram_id, <<>>, <<>>, add_business, clear_business)

Next == UpdateBusyHours

Spec == Init /\ [][Next]_vars

\* the lists of telegram ids tried
IdLists == SeqsUpTo(Ids, MaxUsers)

\* the (date, cell) points a date-to-intervals mapping covers
CoveredPoints(av) == UNION {{<<d, t>> : t \in Coverage(av[d], StoreTimes)} : d \in DOMAIN av}

\* C1: for every non-empty list of ids and every stored set of busy slots, every
\* interval find_common_availability returns for a date has start < end and lies
\* inside some free interval of every listed participant on that date.
C1_CommonInsideEveryFree ==
    LET free_of == FreeSlotsOf(busy_hours)
    IN \A ids \in IdLists \ {<<>>} :
           LET common == FindCommonAvailability(free_of, ids)
           IN \A d \in DOMAIN common : \A k \in 1..Len(common[d]) :
                  /\ common[d][k][1] < common[d][k][2]
                  /\ \A n \in 1..Len(ids) :
                         LET free == free_of[ids[n]]
                         IN /\ d \in DOMAIN free
                            /\ \E j \in 1..Len(free[d]) :
                                   /\ free[d][j][1] <= common[d][k][1]
                                   /\ common[d][k][2] <= free[d][j][2]

\* the scenario of the specification: user 1 busy 09:00-11:00, user 2 busy
\* 08:00-09:30 on 2025-11-10; their common availability is 11:00-22:00
C1_Witness ==
    /\ GetUserFreeSlots(busy_hours, 1) = [d \in {"2025-11-10"} |-> <<<<480, 540>>, <<660, 1320>>>>]
    /\ GetUserFreeSlots(busy_hours, 2) = [d \in {"2025-11-10"} |-> <<<<570, 1320>>>>]
    /\ FindCommonAvailability(FreeSlotsOf(busy_hours), <<1, 2>>)
           = [d \in {"2025-11-10"} |-> <<<<660, 1320>>>>]

\* C4: in the mapping find_common_availability returns, for any list of ids
\* (empty, one id, several), no date maps to an empty sequence.
C4_NoEmptyDate ==
    LET free_of == FreeSlotsOf(busy_hours)
    IN \A ids \in IdLists :
           LET common == FindCommonAvailability(free_of, ids)
           IN \A d \in DOMAIN common : common[d] # <<>>

\* C5: find_common_availability([u]) returns the mapping get_user_free_slots(u) returns.
C5_SingleUserIsFreeSlots ==
    LET free_of == FreeSlotsOf(busy_hours)
    IN \A u \in Ids : FindCommonAvailability(free_of, <<u>>) = GetUserFreeSlots(busy_hours, u)

\* a user with busy hours on both dates, one of them splitting the day in two
C5_Witness ==
    \E u \in Ids :
        LET free == GetUserFreeSlots(busy_hours, u)
        IN /\ DOMAIN free = Dates
           /\ \E d \in Dates : Len(free[d]) = 2
           /\ FindCommonAvailability(FreeSlotsOf(busy_hours), <<u>>) = free

\* C6: for every non-empty list L and every further user v, the points covered by
\* find_common_availability(L followed by v) are among those covered by
\* find_common_availability(L).
C6_AddingUserNeverGrows ==
    LET free_of == FreeSlotsOf(busy_hours)
    IN \A ids \in IdLists \ {<<>>} :
           LET before == CoveredPoints(FindCommonAvailability(free_of, ids))
           IN \A v \in Ids :
                  CoveredPoints(FindCommonAvailability(free_of, Append(ids, v))) \subseteq before

\* adding a user who is not yet listed shrinks a non-empty shared coverage to a
\* smaller non-empty one
C6_Witness ==
    LET free_of == FreeSlotsOf(busy_hours)
    IN \E ids \in IdLists \ {<<>>} : \E v \in Ids \ Range(ids) :
           LET before == CoveredPoints(FindCommonAvailability(free_of, ids))
               after == CoveredPoints(FindCommonAvailability(free_of, Append(ids, v)))
           IN after # {} /\ after # before /\ after \subseteq before

----------------------------------------------------------------------------
(* The preference store: the bot's handlers (src/telegram_bot/bot.py) and the *)
(* agent's update_user_profile_db write the column users.preferences          *)

\* the chats that talk to the bot here
PrefIds == {1, 2}

\* the tags a tool call may name
InputTags == {"", "Sport", "TECH", "sport"}

\* message.text.strip() of a message sent while preferences are awaited:
\* "", "Sport,tech" and "sport,"
MessageTexts == {RawText(<<"">>), RawText(<<"Sport", "tech">>), RawText(<<"sport", "">>)}

\* on_start: ensure_user inserts the row if there is none; without preferences the
\* chat is asked for them
OnStart(tg_id) ==
    /\ users' = IF users[tg_id].present THEN users ELSE [users EXCEPT ![tg_id] = NewRow]
    /\ fsm_state' = IF Truthy(users'[tg_id]) THEN fsm_state
                    ELSE [fsm_state EXCEPT ![tg_id] = "WAITING_PREFERENCES"]
    /\ UNCHANGED <<busy_hours, algVars, memVars, suggVars, nodeVars, concVars, teamVars, raceVars>>

\* on_edit_prefs: the menu button, shown to a chat that has started the bot
OnEditPrefs(tg_id) ==
    /\ users[tg_id].present
    /\ fsm_state' = [fsm_state EXCEPT ![tg_id] = "WAITING_PREFERENCES"]
    /\ UNCHANGED <<users, busy_hours, algVars, memVars, suggVars, nodeVars, concVars, teamVars, raceVars>>

\* receive_preferences: the message text replaces the stored preferences as it is
ReceivePreferences(tg_id, prefs) ==
    /\ fsm_state[tg_id] = "WAITING_PREFERENCES"
    /\ IF prefs = RawText(<<"">>)
       THEN UNCHANGED <<users, fsm_state>>
       ELSE /\ users' = UpdatePrefsRow(users, tg_id, prefs)
            /\ fsm_state' = [fsm_state EXCEPT ![tg_id] = "none"]
    /\ UNCHANGED <<busy_hours, algVars, memVars, suggVars, nodeVars, concVars, teamVars, raceVars>>

\* a tool call that changes preferences (no busy hour is named)
UpdatePreferences ==
    \E telegram_id \in PrefIds :
        \E add_preferences \in SeqsUpTo(InputTags, MaxTags), remove_preferences \in SeqsUpTo(InputTags, MaxTags) :
            UpdateUserProfileDb(telegram_id, add_preferences, remove_preferences, <<>>, FALSE)

NextPrefs ==
    \/ \E tg_id \in PrefIds : OnStart(tg_id)
    \/ \E tg_id \in PrefIds : OnEditPrefs(tg_id)
    \/ \E tg_id \in PrefIds, prefs \in MessageTexts : ReceivePreferences(tg_id, prefs)
    \/ UpdatePreferences

SpecPrefs == Init /\ [][NextPrefs]_vars

\* {p.lower() for p in tags if p}
LowerNonEmpty(tags) == {Lower(tags[i]) : i \in {j \in 1..Len(tags) : tags[j] # ""}}

\* {p.lower() for p in tags}
LowerAll(tags) == {Lower(tags[i]) : i \in 1..Len(tags)}

\* C9: after a profile update of user u with add list A and remove list R, u's
\* stored preference set is (old set united with the lowercased non-empty tags of A)
\* minus the lowercased tags of R.
C9_UpdateIsAddThenRemove ==
    \A u \in PrefIds :
        \A A \in SeqsUpTo(InputTags, MaxTags), R \in SeqsUpTo(InputTags, MaxTags) :
            LoadPrefs(UsersAfterUpdate(users, u, A, R), u)
                = (LoadPrefs(users, u) \cup LowerNonEmpty(A)) \ LowerAll(R)

\* C10: every stored tag of every user is lowercase, and a user's stored preferences
\* change only through the add and remove lists of a profile update.
C10_LowercaseChangedOnlyByUpdate ==
    [][/\ \A u \in Ids : \A tag \in LoadPrefs(users', u) : tag = Lower(tag)
       /\ \A u \in Ids :
              users'[u].preferences # users[u].preferences =>
                  \E A \in SeqsUpTo(InputTags, MaxTags), R \in SeqsUpTo(InputTags, MaxTags) :
                      UpdateUserProfileDb(u, A, R, <<>>, FALSE)]_vars

----------------------------------------------------------------------------
(* The interval algebra exercised on its own: a call is drawn, evaluated,   *)
(* and followed by the second call the round-trip and commutativity         *)
(* properties speak of.                                                     *)

\* "08:00", "10:00", "12:00", "22:00", "22:30", "23:00"
AlgTimes == {480, 600, 720, 1320, 1350, 1380}

\* busy slots of one day, each with start < end, inside or outside the day window
AlgSlots == {iv \in AlgTimes \X AlgTimes : iv[1] < iv[2]}

\* the day windows tried: the default one and one that starts later, so that busy
\* slots lie before, inside and after a window
AlgWindows == {<<DayStart, DayEnd>>, <<600, 1320>>}

\* "08:00", "10:00", "12:00", "22:00"
OvTimes == {480, 600, 720, 1320}

\* intervals handed to _overlap_two_day_slots: the proper ones and an empty one
OvIntervals == {iv \in OvTimes \X OvTimes : iv[1] < iv[2]} \cup {<<600, 600>>}

InvertCalls ==
    {[fn |-> "invert", busy |-> bs, day_start |-> w[1], day_end |-> w[2], a |-> <<>>, b |-> <<>>] :
        bs \in SeqsUpTo(AlgSlots, MaxBusy), w \in AlgWindows}

OverlapCalls ==
    {[fn |-> "overlap", busy |-> <<>>, day_start |-> 0, day_end |-> 0, a |-> x, b |-> y] :
        x \in SeqsUpTo(OvIntervals, MaxOvLen), y \in SeqsUpTo(OvIntervals, MaxOvLen)}

InitAlgebra ==
    /\ InitStore
    /\ InitMem
    /\ InitSugg
    /\ InitNode
    /\ InitConc
    /\ InitTeams
    /\ InitRace
    /\ alg_pc = "called"
    /\ alg_call \in InvertCalls \cup OverlapCalls
    /\ alg_ret = <<>>
    /\ alg_ret2 = <<>>

\* free = invert_busy_to_free(busy, day_start, day_end)
InvertStep ==
    /\ alg_pc = "called"
    /\ alg_call.fn = "invert"
    /\ alg_ret' = InvertBusyToFree(alg_call.busy, alg_call.day_start, alg_call.day_end)
    /\ alg_pc' = "returned"
    /\ UNCHANGED <<alg_call, alg_ret2, storeVars, botVars, memVars, suggVars, nodeVars, concVars, teamVars, raceVars>>

\* invert_busy_to_free(free, day_start, day_end): the free result treated as busy
ReInvertStep ==
    /\ alg_pc = "returned"
    /\ alg_call.fn = "invert"
    /\ alg_ret2' = InvertBusyToFree(alg_ret, alg_call.day_start, alg_call.day_end)
    /\ alg_pc' = "reinverted"
    /\ UNCHANGED <<alg_call, alg_ret, storeVars, botVars, memVars, suggVars, nodeVars, concVars, teamVars, raceVars>>

\* _overlap_two_day_slots(a, b)
OverlapStep ==
    /\ alg_pc = "called"
    /\ alg_call.fn = "overlap"
    /\ alg_ret' = OverlapTwoDaySlots(alg_call.a, alg_call.b)
    /\ alg_pc' = "returned"
    /\ UNCHANGED <<alg_call, alg_ret2, storeVars, botVars, memVars, suggVars, nodeVars, concVars, teamVars, raceVars>>

\* _overlap_two_day_slots(b, a)
OverlapSwappedStep ==
    /\ alg_pc = "returned"
    /\ alg_call.fn = "overlap"
    /\ alg_ret2' = OverlapTwoDaySlots(alg_call.b, alg_call.a)
    /\ alg_pc' = "swapped"
    /\ UNCHANGED <<alg_call, alg_ret, storeVars, botVars, memVars, suggVars, nodeVars, concVars, teamVars, raceVars>>

NextAlgebra == InvertStep \/ ReInvertStep \/ OverlapStep \/ OverlapSwappedStep

SpecAlgebra == InitAlgebra /\ [][NextAlgebra]_vars

----------------------------------------------------------------------------
(* Properties of the interval algebra *)

InvertReturned == alg_call.fn = "invert" /\ alg_pc \in {"returned", "reinverted"}

\* C2: for busy slots of one day with start < end (overlapping, duplicated, inside or
\* outside the day window) the union of the intervals invert_busy_to_free returns is
\* exactly the part of [day_start, day_end] no busy slot covers, and no returned
\* interval extends outside the day window.
C2_FreeIsWindowMinusBusy ==
    InvertReturned =>
        /\ Coverage(alg_ret, AlgTimes) =
               Cells(<<alg_call.day_start, alg_call.day_end>>, AlgTimes)
                   \ Coverage(alg_call.busy, AlgTimes)
        /\ \A i \in 1..Len(alg_ret) :
               alg_call.day_start <= alg_ret[i][1] /\ alg_ret[i][2] <= alg_call.day_end

\* C3: the list invert_busy_to_free returns is sorted by start, every interval has
\* start < end, and each interval ends strictly before the next one starts.
C3_FreeSortedDisjointMaximal ==
    InvertReturned =>
        /\ \A i \in 1..Len(alg_ret) : alg_ret[i][1] < alg_ret[i][2]
        /\ \A i \in 1..(Len(alg_ret) - 1) :
               /\ alg_ret[i][1] <= alg_ret[i + 1][1]
               /\ alg_ret[i][2] < alg_ret[i + 1][1]

\* two busy slots that overlap yet leave free time on both sides of the day
C3_Witness ==
    /\ InvertReturned
    /\ Len(alg_ret) >= 2
    /\ \E i, j \in 1..Len(alg_call.busy) :
           /\ i < j
           /\ Cells(alg_call.busy[i], AlgTimes) \cap Cells(alg_call.busy[j], AlgTimes) # {}

\* the busy lists the round trip speaks of: slots inside the window, pairwise
\* neither overlapping nor touching
RoundTripInput(call) ==
    /\ \A i \in 1..Len(call.busy) :
           call.day_start <= call.busy[i][1] /\ call.busy[i][2] <= call.day_end
    /\ \A i, j \in 1..Len(call.busy) :
           i # j => (call.busy[i][2] < call.busy[j][1] \/ call.busy[j][2] < call.busy[i][1])

\* C7: for pairwise non-overlapping, non-touching busy slots (start < end) inside the
\* day window, inverting and then inverting the result against the same window
\* returns exactly the busy slots.
C7_RoundTrip ==
    (alg_call.fn = "invert" /\ alg_pc = "reinverted" /\ RoundTripInput(alg_call)) =>
        /\ Range(alg_ret2) = Range(alg_call.busy)
        /\ Len(alg_ret2) = Len(alg_call.busy)

\* two separated busy slots given out of order, with free time between them
C7_Witness ==
    /\ alg_call.fn = "invert"
    /\ alg_pc = "reinverted"
    /\ RoundTripInput(alg_call)
    /\ Len(alg_call.busy) = 2
    /\ alg_call.busy[1][1] > alg_call.busy[2][1]
    /\ Len(alg_ret) >= 1
    /\ alg_ret2 # alg_call.busy

\* C8: _overlap_two_day_slots(a, b) and _overlap_two_day_slots(b, a) hold the same
\* set of intervals.
C8_OverlapCommutes ==
    (alg_call.fn = "overlap" /\ alg_pc = "swapped") => Range(alg_ret) = Range(alg_ret2)

\* both orders return several intervals, listed in different orders
C8_Witness ==
    /\ alg_call.fn = "overlap"
    /\ alg_pc = "swapped"
    /\ Len(alg_ret) >= 2
    /\ alg_ret # alg_ret2

----------------------------------------------------------------------------
(* The in-memory variant: profiles are updated, the catalog is refreshed and *)
(* suggestions are asked for, in any order                                   *)

\* the most slots one user's availability holds
MaxAvail == 2

\* availability slots a call may add: 19:00-20:00 and 19:00-20:01 on 2025-11-11
\* (the first only touches the start of event e3), 18:00-19:30 on 2025-11-10
MemSlots ==
    { [date |-> "2025-11-11", start |-> 1140, end |-> 1200],
      [date |-> "2025-11-11", start |-> 1140, end |-> 1201],
      [date |-> "2025-11-10", start |-> 1080, end |-> 1170] }

\* the (add_preferences, remove_preferences) pairs a call may carry
PrefUpdates ==
    { <<<<>>, <<>>>>, <<<<"Sport">>, <<>>>>, <<<<"music", "">>, <<>>>>, <<<<>>, <<"sport">>>> }

\* the number of slots in an availability mapping
RECURSIVE SlotCount(_)
SlotCount(av) ==
    IF DOMAIN av = {} THEN 0
    ELSE LET d == CHOOSE x \in DOMAIN av : TRUE
         IN Len(av[d]) + SlotCount([x \in (DOMAIN av) \ {d} |-> av[x]])

\* the lists of user ids tried
MemIdLists == SeqsUpTo(MemIds, MaxUsers)

UpdateMemProfile ==
    \E user_id \in MemIds, pu \in PrefUpdates, clear_availability \in BOOLEAN :
        \E add_availability \in SeqsUpTo(MemSlots, MaxAdd) :
            /\ UpdateUserProfile(user_id, pu[1], pu[2], add_availability, clear_availability)
            /\ SlotCount(USERS'[user_id].availability) <= MaxAvail

NextMem ==
    \/ UpdateMemProfile
    \/ RefreshEventsCatalog
    \/ \E user_id \in MemIds : GetPersonalSuggestions(user_id)
    \/ \E user_ids \in MemIdLists : GetJointSuggestions(user_ids)

SpecMem == Init /\ [][NextMem]_vars

\* the tags every set of the list holds
PlainIntersection(prefs_sets) == {tag \in Tags : \A i \in 1..Len(prefs_sets) : tag \in prefs_sets[i]}

\* C11: for every list of at least one user, the shared preferences of the joint
\* suggestion are the plain intersection of the listed users' preference sets: empty
\* when some listed user has an empty set, and the same with or without the all(...)
\* guard; with two or more ids it is what the operation reports.
C11_SharedPrefsIsIntersection ==
    \A user_ids \in MemIdLists \ {<<>>} :
        LET prefs_sets == PrefsSets(USERS, user_ids)
        IN /\ SharedPrefs(prefs_sets) = PlainIntersection(prefs_sets)
           /\ (~AllTruthy(prefs_sets)) => SharedPrefs(prefs_sets) = {}
           /\ SharedPrefs(prefs_sets) = SetIntersection(prefs_sets, 2, prefs_sets[1])
           /\ Len(user_ids) >= 2 =>
                  GetJointEventSuggestions(USERS, EVENTS, user_ids).shared_preferences
                      = SortTags(PlainIntersection(prefs_sets))

\* two users with different non-empty preference sets that share a tag
C11_Witness ==
    /\ USERS["u1"].preferences = {"music", "sport"}
    /\ USERS["u2"].preferences = {"music"}
    /\ GetJointEventSuggestions(USERS, EVENTS, <<"u1", "u2">>).shared_preferences = <<"music">>

\* events of the catalog are told apart by their id
EventIds(events) == {events[i].id : i \in 1..Len(events)}

\* the preference set and the availability get_personal_event_suggestions reads
\* (those of a user ensure_user has just created are empty)
PrefsOf(user_id) == USERS[user_id].preferences
AvailabilityOf(user_id) == USERS[user_id].availability

\* e passes the tag gate of a preference set
TagGate(e, prefs) == prefs = {} \/ prefs \cap Range(e.tags) # {}

\* some interval of av on e's date overlaps e: not (e.end <= s or end <= e.start)
TimeGate(e, av) ==
    /\ e.date \in DOMAIN av
    /\ \E k \in 1..Len(av[e.date]) :
           ~(e.end <= av[e.date][k][1] \/ av[e.date][k][2] <= e.start)

\* C12: get_personal_event_suggestions(u) returns a catalog event e if and only if
\* u's preference set is empty or shares a tag with e, and u has on e's date an
\* availability window [s, end] with not (e.end <= s or end <= e.start); each such
\* event is returned once, in catalog order.
C12_PersonalMatchIff ==
    \A user_id \in MemIds :
        LET events == GetPersonalEventSuggestions(USERS, EVENTS, user_id).events
        IN /\ \A i \in 1..Len(EVENTS) :
                  (EVENTS[i].id \in EventIds(events))
                      <=> (TagGate(EVENTS[i], PrefsOf(user_id)) /\ TimeGate(EVENTS[i], AvailabilityOf(user_id)))
           /\ events = SelectSeq(EVENTS, LAMBDA e : e.id \in EventIds(events))

\* the scenario of the specification: event e3 (music, 2025-11-11, 20:00-22:00) is
\* no match for the window 19:00-20:00 and is a match for the window 19:00-20:01
C12_Witness ==
    /\ EVENTS = Catalog
    /\ USERS["u1"].availability = [d \in {"2025-11-11"} |-> <<<<1140, 1200>>>>]
    /\ USERS["u2"].availability = [d \in {"2025-11-11"} |-> <<<<1140, 1201>>>>]
    /\ USERS["u1"].preferences = {"music"}
    /\ "e3" \notin EventIds(GetPersonalEventSuggestions(USERS, EVENTS, "u1").events)
    /\ "e3" \in EventIds(GetPersonalEventSuggestions(USERS, EVENTS, "u2").events)

\* C13: get_joint_event_suggestions(user_ids) with at least two ids returns a
\* catalog event e if and only if the shared preference set is empty or shares a tag
\* with e, and the shared availability has on e's date an interval [s, end] with
\* not (e.end <= s or end <= e.start); each such event is returned once, in catalog
\* order.
C13_JointMatchIff ==
    \A user_ids \in {l \in MemIdLists : Len(l) >= 2} :
        LET events == GetJointEventSuggestions(USERS, EVENTS, user_ids).events
            shared_prefs == PlainIntersection(PrefsSets(USERS, user_ids))
            common_av == FindCommonAvailability(MemAvailability(USERS), user_ids)
        IN /\ \A i \in 1..Len(EVENTS) :
                  (EVENTS[i].id \in EventIds(events))
                      <=> (TagGate(EVENTS[i], shared_prefs) /\ TimeGate(EVENTS[i], common_av))
           /\ events = SelectSeq(EVENTS, LAMBDA e : e.id \in EventIds(events))

\* two users who share no tag and are both free when e3 (music) runs: the shared
\* preference set is empty, so e3 is returned for the pair although it is filtered
\* out for u1 alone
C13_Witness ==
    /\ EVENTS = Catalog
    /\ USERS["u1"].preferences = {"sport"}
    /\ USERS["u2"].preferences = {"music"}
    /\ "e3" \in EventIds(GetJointEventSuggestions(USERS, EVENTS, <<"u1", "u2">>).events)
    /\ "e3" \notin EventIds(GetPersonalEventSuggestions(USERS, EVENTS, "u1").events)

\* C14: whenever its list holds fewer than two distinct user ids (no id, one id,
\* one id repeated) get_joint_event_suggestions returns an {error: ...} payload.
C14_FewerThanTwoDistinctIsError ==
    \A user_ids \in MemIdLists :
        Cardinality(Range(user_ids)) < 2 =>
            DOMAIN GetJointEventSuggestions(USERS, EVENTS, user_ids) = {"error"}

----------------------------------------------------------------------------
(* The retrieval-backed suggestion tools of the database variant             *)
(* (src/agent/agentkit/tools.py): get_nearest_events hands back the nearest  *)
(* documents and the tool deduplicates, sorts and groups them                *)

\* the most documents one retrieval returns here
MaxCand == 3

\* str.strip().lower() on the event titles used
NormTitle(event_title) ==
    CASE event_title = "Jazz Night" -> "jazz night"
      [] event_title = " jazz night " -> "jazz night"
      [] event_title = "Run" -> "run"
      [] OTHER -> "expo"

\* str.strip().lower() on the event dates used
NormDate(event_date) ==
    CASE event_date = "Mon, Nov 10, 09:30 AM" -> "mon, nov 10, 09:30 am"
      [] event_date = "Tue, Nov 11, 07:00 PM" -> "tue, nov 11, 07:00 pm"
      [] OTHER -> "unknown date"

\* round(score, 4): scores are counted in units of 0.00001, the result in units
\* of 0.0001 (no score used lies halfway)
Round4(score) == (score + 5) \div 10

\* the documents of the vector store: two copies of one event (the same title up
\* to case and blanks, the same date) at distances 0.20004 and 0.5, and two other
\* events, one without an event_date ("Unknown Date" is the tool's default)
Candidates ==
    { [event_title |-> "Jazz Night", event_date |-> "Mon, Nov 10, 09:30 AM", score |-> 20004],
      [event_title |-> " jazz night ", event_date |-> "Mon, Nov 10, 09:30 AM", score |-> 50000],
      [event_title |-> "Run", event_date |-> "Tue, Nov 11, 07:00 PM", score |-> 30000],
      [event_title |-> "Expo", event_date |-> "Unknown Date", score |-> 40000] }

\* similarity_search_with_score returns the documents by ascending score (distance)
RagResults ==
    {r \in SeqsUpTo(Candidates, MaxCand) : \A i \in 1..(Len(r) - 1) : r[i].score <= r[i + 1].score}

\* unique_key = (event_title.strip().lower(), event_date.strip().lower())
UniqueKey(c) == <<NormTitle(c.event_title), NormDate(c.event_date)>>

\* the loop `for result in rag_result` of get_personal_event_suggestions_db: a
\* result whose key was seen is skipped (source_url and description are left out)
RECURSIVE DedupSeen(_, _, _, _)
DedupSeen(rag, i, seen, unique_events) ==
    IF i > Len(rag) THEN unique_events
    ELSE IF UniqueKey(rag[i]) \in seen THEN DedupSeen(rag, i + 1, seen, unique_events)
    ELSE DedupSeen(rag, i + 1, seen \cup {UniqueKey(rag[i])},
                   Append(unique_events, [event_title |-> rag[i].event_title,
                                          event_date |-> rag[i].event_date,
                                          similarity_score |-> Round4(rag[i].score)]))

\* datetime.strptime(date_str, "%a, %b %d, %I:%M %p"), or no datetime when it fails
StrpTime(date_str) ==
    CASE date_str = "Mon, Nov 10, 09:30 AM" -> [parsed |-> TRUE, month |-> 11, day |-> 10, hour |-> 9, minute |-> 30]
      [] date_str = "Tue, Nov 11, 07:00 PM" -> [parsed |-> TRUE, month |-> 11, day |-> 11, hour |-> 19, minute |-> 0]
      [] OTHER -> [parsed |-> FALSE, month |-> 0, day |-> 0, hour |-> 0, minute |-> 0]

\* the order of two datetimes of the year strptime assumes
DateTimeRank(dt) == ((dt.month * 31 + dt.day) * 24 + dt.hour) * 60 + dt.minute

\* list.sort on keys that are all datetimes: stable, x goes after every element
\* already placed whose key is not greater
RECURSIVE InsertByDate(_, _, _)
InsertByDate(sorted, x, i) ==
    IF i > Len(sorted) THEN Append(sorted, x)
    ELSE IF DateTimeRank(StrpTime(x.event_date)) < DateTimeRank(StrpTime(sorted[i].event_date))
         THEN SubSeq(sorted, 1, i - 1) \o <<x>> \o SubSeq(sorted, i, Len(sorted))
         ELSE InsertByDate(sorted, x, i + 1)

RECURSIVE SortByDate(_, _, _)
SortByDate(unique_events, i, sorted) ==
    IF i > Len(unique_events) THEN sorted
    ELSE SortByDate(unique_events, i + 1, InsertByDate(sorted, unique_events[i], 1))

\* unique_events.sort(key=parse_date_safe): the keys are datetimes where strptime
\* succeeds and the strings themselves where it fails; comparing a datetime with a
\* str raises TypeError. The only unparseable string here is "Unknown Date".
SortRaises(unique_events) ==
    \E i, j \in 1..Len(unique_events) :
        StrpTime(unique_events[i].event_date).parsed /\ ~StrpTime(unique_events[j].event_date).parsed

SortedEvents(unique_events) ==
    IF \A i \in 1..Len(unique_events) : ~StrpTime(unique_events[i].event_date).parsed
    THEN unique_events
    ELSE SortByDate(unique_events, 1, <<>>)

\* grouped_by_date.setdefault(ev["event_date"], []).append(ev): the dates in the
\* order of their first event, each with its events
RECURSIVE GroupByDate(_, _, _)
GroupByDate(events, i, grouped) ==
    IF i > Len(events) THEN grouped
    ELSE LET ev == events[i]
             at == {k \in 1..Len(grouped) : grouped[k].event_date = ev.event_date}
         IN GroupByDate(events, i + 1,
                IF at = {}
                THEN Append(grouped, [event_date |-> ev.event_date, events |-> <<ev>>])
                ELSE LET k == CHOOSE x \in at : TRUE
                     IN [grouped EXCEPT ![k].events = Append(@, ev)])

\* get_personal_event_suggestions_db(telegram_id) when get_nearest_events returns rag
GetPersonalEventSuggestionsDb(us, rows, telegram_id, rag) ==
    LET prefs == LoadPrefs(us, telegram_id)
        busy_by_date == BusyByDate(rows, telegram_id)
        unique_events == DedupSeen(rag, 1, {}, <<>>)
    IN IF SortRaises(unique_events)
       THEN [tool |-> "get_personal_event_suggestions_db", telegram_id |-> telegram_id,
             raised |-> "TypeError"]
       ELSE [tool |-> "get_personal_event_suggestions_db", telegram_id |-> telegram_id,
             raised |-> "",
             preferences |-> SortTags(prefs),
             busy_days |-> SortDays(DOMAIN busy_by_date),
             suggestions_query |-> IF prefs # {} THEN SortTags(prefs) ELSE <<"general events">>,
             grouped_events |-> GroupByDate(SortedEvents(unique_events), 1, <<>>)]

\* get_joint_event_suggestions_db(telegram_id): the second query (line 326) runs on
\* conn after the `async with aiosqlite.connect(...) as conn` block has closed it,
\* and aiosqlite raises ValueError("no active connection") for a closed connection
GetJointEventSuggestionsDb(us, rows, telegram_id, rag) ==
    [tool |-> "get_joint_event_suggestions_db", telegram_id |-> telegram_id, raised |-> "ValueError"]

\* the events of a returned payload, all dates together
RECURSIVE Flatten(_, _)
Flatten(grouped, i) ==
    IF i > Len(grouped) THEN <<>> ELSE grouped[i].events \o Flatten(grouped, i + 1)

ReturnedEvents(ret) ==
    IF ret.tool = "none" \/ ret.raised # "" THEN <<>> ELSE Flatten(ret.grouped_events, 1)

\* the busy slots the profile tool records here: 09:00-11:00 on 2025-11-10 and
\* 08:00-09:30 on 2025-11-11
SuggSlots ==
    { [date |-> "2025-11-10", start |-> 540, duration |-> 660],
      [date |-> "2025-11-11", start |-> 480, duration |-> 570] }

SuggIds == {1, 2}

\* update_user_profile_db replaces the user's busy hours by one slot
RecordBusyHours ==
    \E telegram_id \in SuggIds, slot \in SuggSlots :
        UpdateUserProfileDb(telegram_id, <<>>, <<>>, <<slot>>, TRUE)

PersonalSuggestionsDb ==
    \E telegram_id \in SuggIds, rag \in RagResults :
        /\ rag_result' = rag
        /\ sugg_ret' = GetPersonalEventSuggestionsDb(users, busy_hours, telegram_id, rag)
        /\ UNCHANGED <<storeVars, botVars, algVars, memVars, nodeVars, concVars, teamVars, raceVars>>

JointSuggestionsDb ==
    \E telegram_id \in SuggIds, rag \in RagResults :
        /\ rag_result' = rag
        /\ sugg_ret' = GetJointEventSuggestionsDb(users, busy_hours, telegram_id, rag)
        /\ UNCHANGED <<storeVars, botVars, algVars, memVars, nodeVars, concVars, teamVars, raceVars>>

NextSugg == RecordBusyHours \/ PersonalSuggestionsDb \/ JointSuggestionsDb

SpecSugg == Init /\ [][NextSugg]_vars

\* C15: in the result of a retrieval-backed suggestion at most one event survives
\* per key (trimmed lowercased title, trimmed lowercased date), and the survivor's
\* similarity score is the highest among the candidates with that key.
C15_SurvivorHasHighestScore ==
    LET events == ReturnedEvents(sugg_ret)
    IN /\ \A i, j \in 1..Len(events) : UniqueKey(events[i]) = UniqueKey(events[j]) => i = j
       /\ \A i \in 1..Len(events) : \A k \in 1..Len(rag_result) :
              UniqueKey(rag_result[k]) = UniqueKey(events[i]) =>
                  Round4(rag_result[k].score) <= events[i].similarity_score

\* the ISO date and the minute of the day an event_date names (event dates carry no
\* year; the busy hours used are of the same year)
EventDay(event_date) ==
    IF StrpTime(event_date).day = 10 THEN "2025-11-10" ELSE "2025-11-11"

EventMinute(event_date) == StrpTime(event_date).hour * 60 + StrpTime(event_date).minute

\* the event starts on a date and at a time one of the user's busy slots covers
FallsInBusyHours(ev, rows, telegram_id) ==
    /\ StrpTime(ev.event_date).parsed
    /\ \E i \in 1..Len(rows) :
           /\ rows[i].telegram_id = telegram_id
           /\ SplitStart(rows[i].start).date = EventDay(ev.event_date)
           /\ SplitStart(rows[i].start).t_start <= EventMinute(ev.event_date)
           /\ EventMinute(ev.event_date) < rows[i].duration

\* C16: every event a retrieval-backed suggestion tool returns is filtered by
\* availability: get_personal_event_suggestions_db returns no event that falls
\* inside the busy hours of the user it was called for.
C16_NoEventInBusyHours ==
    LET events == ReturnedEvents(sugg_ret)
    IN \A i \in 1..Len(events) : ~FallsInBusyHours(events[i], busy_hours, sugg_ret.telegram_id)

----------------------------------------------------------------------------
(* One run of the agent graph (src/agent/agentkit/nodes.py, wired as in      *)
(* src/agentkit/graph.py): assistant, then tools while the last AI message   *)
(* carries tool calls                                                        *)

\* the most assistant steps of one run
MaxLlmCalls == 3

\* the keys of TOOLS_BY_NAME
ToolNames ==
    {"get_team_members_db", "get_user_busy_hours_db", "get_user_preferences_db",
     "get_personal_event_suggestions_db", "get_joint_event_suggestions_db",
     "update_user_profile_db"}

\* tool calls the model may emit, each with the way tool.ainvoke ends on its
\* arguments: accepted arguments, rejected arguments, a failure inside the tool, and
\* a tool name that is not registered
CallAccepted == [name |-> "update_user_profile_db", id |-> "call_a", outcome |-> "returns"]
CallRejected == [name |-> "update_user_profile_db", id |-> "call_b", outcome |-> "ValidationError"]
CallFailing == [name |-> "get_joint_event_suggestions_db", id |-> "call_c", outcome |-> "Exception"]
CallUnknown == [name |-> "send_email", id |-> "call_d", outcome |-> "returns"]

\* the tool_calls lists of the AI messages tried
AiToolCalls ==
    { <<>>, <<CallAccepted>>, <<CallRejected>>, <<CallAccepted, CallFailing>>,
      <<CallFailing, CallRejected>>, <<CallUnknown>>, <<CallAccepted, CallUnknown>> }

\* `result` after the try statement of tool_node
ToolResult(tc) ==
    CASE tc.outcome = "ValidationError" -> [error |-> <<"ValidationError">>]
      [] tc.outcome = "Exception" -> [error |-> <<"Tool", tc.name, "failed">>]
      [] OTHER -> [result |-> tc.name]

\* TOOLS_BY_NAME[tc["name"]] raises KeyError for a name that is no key; the lookup
\* stands before the try statement
ToolNodeRaises(tool_calls) == \E i \in 1..Len(tool_calls) : tool_calls[i].name \notin ToolNames

\* the loop over the tool calls: one ToolMessage per call
RECURSIVE ToolMessages(_, _, _)
ToolMessages(tool_calls, i, tool_messages) ==
    IF i > Len(tool_calls) THEN tool_messages
    ELSE ToolMessages(tool_calls, i + 1,
                      Append(tool_messages, [type |-> "tool",
                                             content |-> ToolResult(tool_calls[i]),
                                             tool_call_id |-> tool_calls[i].id]))

\* should_continue(state)
ShouldContinue(msgs) == IF msgs[Len(msgs)].tool_calls # <<>> THEN "tools" ELSE "end"

\* assistant_node, followed by the conditional edge
AssistantNode ==
    /\ graph_pc = "assistant"
    /\ llm_calls < MaxLlmCalls
    /\ \E tool_calls \in AiToolCalls :
           messages' = Append(messages, [type |-> "ai", tool_calls |-> tool_calls])
    /\ llm_calls' = llm_calls + 1
    /\ graph_pc' = ShouldContinue(messages')
    /\ UNCHANGED <<storeVars, botVars, algVars, memVars, suggVars, concVars, teamVars, raceVars>>

\* tool_node, followed by the edge back to the assistant; an exception leaving the
\* node ends the run without a state update
ToolNode ==
    /\ graph_pc = "tools"
    /\ LET last == messages[Len(messages)]
       IN IF ToolNodeRaises(last.tool_calls)
          THEN /\ graph_pc' = "raised"
               /\ UNCHANGED messages
          ELSE /\ graph_pc' = "assistant"
               /\ messages' = messages \o ToolMessages(last.tool_calls, 1, <<>>)
    /\ UNCHANGED <<llm_calls, storeVars, botVars, algVars, memVars, suggVars, concVars, teamVars, raceVars>>

NextNode == AssistantNode \/ ToolNode

SpecNode == Init /\ [][NextNode]_vars

\* C17: tool_node never raises, and for every tool call of an AI message it has
\* handled it appended exactly one ToolMessage carrying that call's id, in call
\* order, whose content is the tool's result or an {error: message} record.
C17_ToolNodeAnswersEveryCall ==
    /\ graph_pc # "raised"
    /\ \A p \in 1..Len(messages) :
           (messages[p].type = "ai" /\ ~(p = Len(messages) /\ graph_pc = "tools")) =>
               LET calls == messages[p].tool_calls
               IN /\ p + Len(calls) <= Len(messages)
                  /\ \A k \in 1..Len(calls) :
                         /\ messages[p + k].type = "tool"
                         /\ messages[p + k].tool_call_id = calls[k].id
                         /\ messages[p + k].content = ToolResult(calls[k])
                  /\ p + Len(calls) < Len(messages) => messages[p + Len(calls) + 1].type # "tool"

----------------------------------------------------------------------------
(* The database tools under interleaving: one update_user_profile_db call    *)
(* proceeds from commit to commit while reader tools are called in between   *)

\* ORDER BY start: the rows by their start text (date, then time); rows with equal
\* start keep their rowid order
RECURSIVE InsertOrdered(_, _, _)
InsertOrdered(sorted, r, i) ==
    IF i > Len(sorted) THEN Append(sorted, r)
    ELSE IF \/ DayRank(r.start[1]) < DayRank(sorted[i].start[1])
            \/ (r.start[1] = sorted[i].start[1] /\ r.start[2] < sorted[i].start[2])
         THEN SubSeq(sorted, 1, i - 1) \o <<r>> \o SubSeq(sorted, i, Len(sorted))
         ELSE InsertOrdered(sorted, r, i + 1)

RECURSIVE OrderByStart(_, _, _)
OrderByStart(rows, i, sorted) ==
    IF i > Len(rows) THEN sorted ELSE OrderByStart(rows, i + 1, InsertOrdered(sorted, rows[i], 1))

\* [{"start": s, "end": d} for s, d in rows]
RECURSIVE StartEnd(_, _)
StartEnd(rows, i) ==
    IF i > Len(rows) THEN <<>>
    ELSE <<[start |-> rows[i].start, end |-> rows[i].duration]>> \o StartEnd(rows, i + 1)

\* get_user_busy_hours_db(telegram_id): the returned payload
GetUserBusyHoursDb(rows, telegram_id) ==
    LET busy == StartEnd(OrderByStart(SelectBusyHours(rows, telegram_id), 1, <<>>), 1)
    IN [telegram_id |-> telegram_id, busy_hours_count |-> Len(busy), busy_hours |-> busy]

\* sorted(prefs) on a list of tags
RECURSIVE InsertTag(_, _, _)
InsertTag(sorted, tag, i) ==
    IF i > Len(sorted) THEN Append(sorted, tag)
    ELSE IF TagRank(tag) < TagRank(sorted[i])
         THEN SubSeq(sorted, 1, i - 1) \o <<tag>> \o SubSeq(sorted, i, Len(sorted))
         ELSE InsertTag(sorted, tag, i + 1)

RECURSIVE SortTagList(_, _, _)
SortTagList(tags, i, sorted) ==
    IF i > Len(tags) THEN sorted ELSE SortTagList(tags, i + 1, InsertTag(sorted, tags[i], 1))

\* json.loads(row[0]) for a JSON list, else [p.strip() for p in row[0].split(",")
\* if p.strip()] (no tag used here has blanks around it)
ParsePrefsList(text) ==
    IF text.kind = "json" THEN text.items ELSE SelectSeq(text.items, LAMBDA p : p # "")

\* get_user_preferences_db(telegram_id): the returned payload
GetUserPreferencesDb(us, telegram_id) ==
    LET prefs == IF Truthy(us[telegram_id]) THEN ParsePrefsList(us[telegram_id].preferences) ELSE <<>>
    IN [telegram_id |-> telegram_id, preferences |-> SortTagList(prefs, 1, <<>>)]

\* get_team_members_db(team_id): it selects from table teams on users.sqlite, while
\* init_db creates teams in teams.sqlite only, so sqlite3 raises OperationalError
\* ("no such table: teams") whatever the team_id
GetTeamMembersDb(team_id) == [raised |-> "OperationalError"]

\* the summary update_user_profile_db returns
UpdateSummary(rows, telegram_id, existing_prefs) ==
    LET busy_rows == StartEnd(OrderByStart(SelectBusyHours(rows, telegram_id), 1, <<>>), 1)
    IN [telegram_id |-> telegram_id,
        preferences |-> SortTags(existing_prefs),
        busy_hours_count |-> Len(busy_rows),
        busy_hours |-> busy_rows]

\* the chat and the team the calls are about
ConcIds == {1}
TeamIds == {123456}

\* busy slots a call may add
ConcSlots ==
    { [date |-> "2025-11-10", start |-> 540, duration |-> 660],
      [date |-> "2025-11-11", start |-> 480, duration |-> 570] }

\* the add_business lists and add_preferences lists tried
ConcAddBusiness == {<<>>} \cup {<<slot>> : slot \in ConcSlots}
ConcAddPreferences == {<<>>, <<"Sport">>}

\* the call is made: arguments are bound (lines 149-151)
BeginUpdate ==
    \E telegram_id \in ConcIds, add_preferences \in ConcAddPreferences,
       add_business \in ConcAddBusiness, clear_business \in BOOLEAN :
        /\ upd_pc = "idle"
        /\ Len(BusyHoursAfterUpdate(busy_hours, telegram_id, add_business, clear_business)) <= MaxRows
        /\ upd_call' = [telegram_id |-> telegram_id,
                        add_preferences |-> add_preferences,
                        remove_preferences |-> <<>>,
                        add_business |-> add_business,
                        clear_business |-> clear_business,
                        existing_prefs |-> {},
                        users0 |-> users,
                        busy0 |-> busy_hours]
        /\ upd_pc' = "load"
        /\ UNCHANGED <<observed, storeVars, botVars, algVars, memVars, suggVars, nodeVars, teamVars, raceVars>>

\* "Load existing preferences" and "Apply changes" (lines 156-173)
LoadAndApply ==
    /\ upd_pc = "load"
    /\ upd_call' = [upd_call EXCEPT !.existing_prefs =
                       UpdatedPrefs(users, upd_call.telegram_id,
                                    upd_call.add_preferences, upd_call.remove_preferences)]
    /\ upd_pc' = "save"
    /\ UNCHANGED <<observed, storeVars, botVars, algVars, memVars, suggVars, nodeVars, teamVars, raceVars>>

\* "Save preferences": UPDATE and commit on users.sqlite (lines 176-181)
SavePreferences ==
    /\ upd_pc = "save"
    /\ users' = UpdatePrefsRow(users, upd_call.telegram_id, SerializePrefs(upd_call.existing_prefs))
    /\ upd_pc' = IF upd_call.clear_business THEN "clear" ELSE "insert"
    /\ UNCHANGED <<busy_hours, upd_call, observed, botVars, algVars, memVars, suggVars, nodeVars, teamVars, raceVars>>

\* DELETE and commit on busyhours.sqlite (lines 184-188)
ClearBusiness ==
    /\ upd_pc = "clear"
    /\ busy_hours' = DeleteBusyHours(busy_hours, upd_call.telegram_id)
    /\ upd_pc' = "insert"
    /\ UNCHANGED <<users, upd_call, observed, botVars, algVars, memVars, suggVars, nodeVars, teamVars, raceVars>>

\* "Add new busy slots": the INSERTs and one commit (lines 191-198)
InsertBusiness ==
    /\ upd_pc = "insert"
    /\ busy_hours' = InsertSlots(busy_hours, upd_call.telegram_id, upd_call.add_business, 1)
    /\ upd_pc' = "summary"
    /\ UNCHANGED <<users, upd_call, observed, botVars, algVars, memVars, suggVars, nodeVars, teamVars, raceVars>>

\* "Get updated summary" and return (lines 200-214)
ReturnSummary ==
    /\ upd_pc = "summary"
    /\ observed' = [tool |-> "update_user_profile_db",
                    telegram_id |-> upd_call.telegram_id,
                    known |-> upd_call.users0[upd_call.telegram_id].present,
                    in_flight |-> FALSE,
                    payload |-> UpdateSummary(busy_hours, upd_call.telegram_id, upd_call.existing_prefs)]
    /\ upd_pc' = "idle"
    /\ UNCHANGED <<upd_call, storeVars, botVars, algVars, memVars, suggVars, nodeVars, teamVars, raceVars>>

\* /start from the chat, between two profile updates
StartChat ==
    /\ upd_pc = "idle"
    /\ \E tg_id \in ConcIds : OnStart(tg_id)

\* an update call is between its first and its last commit for this telegram id
InFlight(telegram_id) == upd_pc \in {"load", "save", "clear", "insert"} /\ upd_call.telegram_id = telegram_id

\* the tables as the call in flight found them, and as they are once it is through
UsersBefore == upd_call.users0
BusyBefore == upd_call.busy0
UsersAfter == UsersAfterUpdate(upd_call.users0, upd_call.telegram_id,
                               upd_call.add_preferences, upd_call.remove_preferences)
BusyAfter == BusyHoursAfterUpdate(upd_call.busy0, upd_call.telegram_id,
                                  upd_call.add_business, upd_call.clear_business)

\* get_user_preferences_db is called and returns
ReadPreferences ==
    \E telegram_id \in ConcIds :
        /\ observed' = [tool |-> "get_user_preferences_db",
                        telegram_id |-> telegram_id,
                        known |-> users[telegram_id].present,
                        in_flight |-> InFlight(telegram_id),
                        payload |-> GetUserPreferencesDb(users, telegram_id),
                        before |-> IF InFlight(telegram_id)
                                   THEN GetUserPreferencesDb(UsersBefore, telegram_id) ELSE <<>>,
                        after |-> IF InFlight(telegram_id)
                                  THEN GetUserPreferencesDb(UsersAfter, telegram_id) ELSE <<>>]
        /\ UNCHANGED <<upd_pc, upd_call, storeVars, botVars, algVars, memVars, suggVars, nodeVars, teamVars, raceVars>>

\* get_user_busy_hours_db is called and returns
ReadBusyHours ==
    \E telegram_id \in ConcIds :
        /\ observed' = [tool |-> "get_user_busy_hours_db",
                        telegram_id |-> telegram_id,
                        known |-> users[telegram_id].present,
                        in_flight |-> InFlight(telegram_id),
                        payload |-> GetUserBusyHoursDb(busy_hours, telegram_id),
                        before |-> IF InFlight(telegram_id)
                                   THEN GetUserBusyHoursDb(BusyBefore, telegram_id) ELSE <<>>,
                        after |-> IF InFlight(telegram_id)
                                  THEN GetUserBusyHoursDb(BusyAfter, telegram_id) ELSE <<>>]
        /\ UNCHANGED <<upd_pc, upd_call, storeVars, botVars, algVars, memVars, suggVars, nodeVars, teamVars, raceVars>>

\* get_user_free_slots is called (by a suggestion tool) and returns
ReadFreeSlots ==
    \E telegram_id \in ConcIds :
        /\ observed' = [tool |-> "get_user_free_slots",
                        telegram_id |-> telegram_id,
                        known |-> users[telegram_id].present,
                        in_flight |-> InFlight(telegram_id),
                        payload |-> GetUserFreeSlots(busy_hours, telegram_id),
                        before |-> IF InFlight(telegram_id)
                                   THEN GetUserFreeSlots(BusyBefore, telegram_id) ELSE <<>>,
                        after |-> IF InFlight(telegram_id)
                                  THEN GetUserFreeSlots(BusyAfter, telegram_id) ELSE <<>>]
        /\ UNCHANGED <<upd_pc, upd_call, storeVars, botVars, algVars, memVars, suggVars, nodeVars, teamVars, raceVars>>

\* get_team_members_db is called
ReadTeamMembers ==
    \E team_id \in TeamIds :
        /\ observed' = [tool |-> "get_team_members_db",
                        telegram_id |-> team_id,
                        known |-> FALSE,
                        in_flight |-> FALSE,
                        payload |-> GetTeamMembersDb(team_id)]
        /\ UNCHANGED <<upd_pc, upd_call, storeVars, botVars, algVars, memVars, suggVars, nodeVars, teamVars, raceVars>>

NextConc ==
    \/ StartChat
    \/ BeginUpdate \/ LoadAndApply \/ SavePreferences \/ ClearBusiness \/ InsertBusiness \/ ReturnSummary
    \/ ReadPreferences \/ ReadBusyHours \/ ReadFreeSlots \/ ReadTeamMembers

SpecConc == Init /\ [][NextConc]_vars

\* the tools that answer an absent id
ErrorTools ==
    {"get_team_members_db", "get_user_preferences_db", "get_user_busy_hours_db", "update_user_profile_db"}

\* C18: a tool call that names a user id or a team id absent from the store returns
\* an explicit error payload that echoes the identifier.
C18_UnknownIdIsError ==
    (observed.tool \in ErrorTools /\ ~observed.known) =>
        /\ DOMAIN observed.payload = {"error"}
        /\ observed.payload.error = observed.telegram_id

\* the readers of the tables update_user_profile_db writes
Readers == {"get_user_preferences_db", "get_user_busy_hours_db", "get_user_free_slots"}

\* C19: in every interleaving, what a reader gets while an update_user_profile_db call
\* for the same user is under way is what it would get before the call or after it,
\* never a state with part of the call's changes.
C19_UpdateIsAtomicForReaders ==
    (observed.tool \in Readers /\ observed.in_flight) =>
        observed.payload \in {observed.before, observed.after}

----------------------------------------------------------------------------
(* find_common_availability: the early exit against the fold over all users  *)

\* the loop of find_common_availability without `if not common: break`
RECURSIVE FoldAllUsers(_, _, _, _)
FoldAllUsers(free_of, telegram_ids, i, common) ==
    IF i > Len(telegram_ids) THEN common
    ELSE FoldAllUsers(free_of, telegram_ids, i + 1, IntersectWith(common, free_of[telegram_ids[i]]))

CommonOverAllUsers(free_of, telegram_ids) ==
    IF telegram_ids = <<>> THEN <<>>
    ELSE FoldAllUsers(free_of, telegram_ids, 2, free_of[telegram_ids[1]])

\* the lists of ids the comparison runs over: one id more than IdLists, so that
\* users are left when two users have no common day
LongIdLists == SeqsUpTo(Ids, MaxUsers + 1)

\* the running intersection after the first n ids of the list
CommonAfter(free_of, telegram_ids, n) == CommonOverAllUsers(free_of, SubSeq(telegram_ids, 1, n))

\* C20: for every list of user ids, find_common_availability with its early exit
\* returns what the same fold returns when it is carried through all listed users.
C20_EarlyExitEqualsFullFold ==
    LET free_of == FreeSlotsOf(busy_hours)
    IN \A ids \in LongIdLists :
           FindCommonAvailability(free_of, ids) = CommonOverAllUsers(free_of, ids)

\* the early exit is taken with users left, one of whom has free slots
C20_Witness ==
    LET free_of == FreeSlotsOf(busy_hours)
    IN \E ids \in LongIdLists :
           /\ Len(ids) = 3
           /\ DOMAIN free_of[ids[1]] # {}
           /\ DOMAIN CommonAfter(free_of, ids, 2) = {}
           /\ DOMAIN free_of[ids[3]] # {}
           /\ FindCommonAvailability(free_of, ids) = <<>>
           /\ CommonOverAllUsers(free_of, ids) = <<>>

----------------------------------------------------------------------------
(* The in-memory variant, objects shared with the caller: a returned value   *)
(* may hold the very list or dict objects of USERS and EVENTS, and a caller  *)
(* that changes such an object changes the store                             *)

\* a stored object: the list of one day of a user's availability, one [start, end]
\* list in it, or one event dict of EVENTS
DayListOf(uid, day) == [kind |-> "day_list", owner |-> uid, day |-> day, index |-> 0]
IntervalOf(uid, day, i) == [kind |-> "interval", owner |-> uid, day |-> day, index |-> i]
EventOf(id) == [kind |-> "event", owner |-> id, day |-> "", index |-> 0]

\* a plausible slip: `common = dict(base_av)`, which copies the mapping only
CopyAvailability_Shallow(base_av, uid) ==
    [value |-> base_av,
     shares |-> {DayListOf(uid, d) : d \in DOMAIN base_av}
                \cup UNION {{IntervalOf(uid, d, i) : i \in 1..Len(base_av[d])} : d \in DOMAIN base_av}]

\* `{d: [s[:] for s in slots] for d, slots in base_av.items()}`: a new dict, a new
\* list per day and a new list per interval, so nothing of it is a stored object
CopyAvailability(base_av, uid) == [value |-> base_av, shares |-> {}]

\* find_common_availability(user_ids) with the objects its result shares with USERS:
\* the copy of the first user's mapping if the loop body never ran, else the
\* new_common built from the lists _overlap_two_day_slots creates
FindCommonAvailabilityMem(U, user_ids) ==
    IF user_ids = <<>> THEN [value |-> <<>>, shares |-> {}]
    ELSE LET ensured == EnsureUsers(U, user_ids, 1)
             base == CopyAvailability(ensured[user_ids[1]].availability, user_ids[1])
         IN IF Len(user_ids) = 1 THEN base
            ELSE [value |-> FindCommonAvailability(MemAvailability(ensured), user_ids),
                  shares |-> {}]

\* `matches.append(e)`: the returned events are the dicts of EVENTS themselves
SharedEvents(events) == {EventOf(events[i].id) : i \in 1..Len(events)}

\* availability slots a call may add
AliasSlots == { [date |-> "2025-11-10", start |-> 1080, end |-> 1170] }

\* the lists of user ids the calls are made with
AliasIdLists == {<<>>, <<"u1">>, <<"u2">>, <<"u1", "u2">>, <<"u2", "u1">>, <<"u1", "u1">>}

UpdateAliasProfile ==
    \E user_id \in MemIds, add_availability \in SeqsUpTo(AliasSlots, MaxAdd), clear_availability \in BOOLEAN :
        /\ UpdateUserProfile(user_id, <<>>, <<>>, add_availability, clear_availability)
        /\ SlotCount(USERS'[user_id].availability) <= MaxAvail

\* find_common_availability(user_ids) is called and its result kept by the caller
CallFindCommonAvailability(user_ids) ==
    /\ USERS' = EnsureUsers(USERS, user_ids, 1)
    /\ LET result == FindCommonAvailabilityMem(USERS, user_ids)
       IN observed' = [tool |-> "find_common_availability",
                       args |-> user_ids,
                       mutated |-> FALSE,
                       value |-> result.value,
                       shares |-> result.shares]
    /\ UNCHANGED <<EVENTS, upd_pc, upd_call, storeVars, botVars, algVars, suggVars, nodeVars, teamVars, raceVars>>

\* get_personal_event_suggestions(user_id) is called and its result kept
CallPersonalSuggestions(user_id) ==
    /\ USERS' = EnsureUser(USERS, user_id)
    /\ LET result == GetPersonalEventSuggestions(USERS, EVENTS, user_id)
       IN observed' = [tool |-> "get_personal_event_suggestions",
                       args |-> <<user_id>>,
                       mutated |-> FALSE,
                       value |-> result.events,
                       shares |-> SharedEvents(result.events)]
    /\ UNCHANGED <<EVENTS, upd_pc, upd_call, storeVars, botVars, algVars, suggVars, nodeVars, teamVars, raceVars>>

\* get_joint_event_suggestions(user_ids), two ids or more, is called and its result kept
CallJointSuggestions(user_ids) ==
    /\ Len(user_ids) >= 2
    /\ USERS' = EnsureUsers(USERS, user_ids, 1)
    /\ LET result == GetJointEventSuggestions(USERS, EVENTS, user_ids)
       IN observed' = [tool |-> "get_joint_event_suggestions",
                       args |-> user_ids,
                       mutated |-> FALSE,
                       value |-> result.events,
                       shares |-> SharedEvents(result.events)]
    /\ UNCHANGED <<EVENTS, upd_pc, upd_call, storeVars, botVars, algVars, suggVars, nodeVars, teamVars, raceVars>>

\* the caller runs `result[day].clear()` on the mapping it got
ClearDayList(day) ==
    /\ observed.tool = "find_common_availability"
    /\ day \in DOMAIN observed.value
    /\ observed' = [observed EXCEPT !.value = [observed.value EXCEPT ![day] = <<>>], !.mutated = TRUE]
    /\ USERS' = [uid \in MemIds |->
                    IF DayListOf(uid, day) \in observed.shares /\ day \in DOMAIN USERS[uid].availability
                    THEN [USERS[uid] EXCEPT !.availability = [USERS[uid].availability EXCEPT ![day] = <<>>]]
                    ELSE USERS[uid]]
    /\ UNCHANGED <<EVENTS, upd_pc, upd_call, storeVars, botVars, algVars, suggVars, nodeVars, teamVars, raceVars>>

\* the caller runs `result[day][i][1] = result[day][i][0]` on the mapping it got
ShrinkInterval(day, i) ==
    /\ observed.tool = "find_common_availability"
    /\ day \in DOMAIN observed.value
    /\ i \in 1..Len(observed.value[day])
    /\ observed' = [observed EXCEPT !.value = [observed.value EXCEPT ![day][i][2] = observed.value[day][i][1]],
                                   !.mutated = TRUE]
    /\ USERS' = [uid \in MemIds |->
                    IF /\ IntervalOf(uid, day, i) \in observed.shares
                       /\ day \in DOMAIN USERS[uid].availability
                       /\ i \in 1..Len(USERS[uid].availability[day])
                    THEN [USERS[uid] EXCEPT !.availability =
                             [USERS[uid].availability EXCEPT ![day][i][2] = USERS[uid].availability[day][i][1]]]
                    ELSE USERS[uid]]
    /\ UNCHANGED <<EVENTS, upd_pc, upd_call, storeVars, botVars, algVars, suggVars, nodeVars, teamVars, raceVars>>

\* the caller runs `result["events"][i]["tags"].clear()` on the suggestions it got
ClearEventTags(i) ==
    /\ observed.tool \in {"get_personal_event_suggestions", "get_joint_event_suggestions"}
    /\ i \in 1..Len(observed.value)
    /\ observed' = [observed EXCEPT !.value = [observed.value EXCEPT ![i].tags = <<>>], !.mutated = TRUE]
    /\ EVENTS' = [k \in 1..Len(EVENTS) |->
                     IF EventOf(EVENTS[k].id) \in observed.shares /\ EVENTS[k].id = observed.value[i].id
                     THEN [EVENTS[k] EXCEPT !.tags = <<>>]
                     ELSE EVENTS[k]]
    /\ UNCHANGED <<USERS, upd_pc, upd_call, storeVars, botVars, algVars, suggVars, nodeVars, teamVars, raceVars>>

\* the caller changes an object of the value it holds
CallerMutates ==
    \/ \E day \in Dates : ClearDayList(day)
    \/ \E day \in Dates, i \in 1..MaxAvail : ShrinkInterval(day, i)
    \/ \E i \in 1..Len(Catalog) : ClearEventTags(i)

NextAlias ==
    \/ UpdateAliasProfile
    \/ RefreshEventsCatalog
    \/ \E user_ids \in AliasIdLists : CallFindCommonAvailability(user_ids)
    \/ \E user_id \in MemIds : CallPersonalSuggestions(user_id)
    \/ \E user_ids \in AliasIdLists : CallJointSuggestions(user_ids)
    \/ CallerMutates

SpecAlias == Init /\ [][NextAlias]_vars

\* a step in which a result is handed out or the caller changes the result it holds
ResultStep == observed' # observed

\* C21: find_common_availability and the two suggestion operations leave the stored
\* preferences and availability of every user that already exists unchanged, and so
\* does every later change the caller makes to the returned mapping or to its
\* interval lists.
C21_StoredProfilesUntouched ==
    [][ResultStep => \A uid \in MemIds : USERS[uid].present => USERS'[uid] = USERS[uid]]_vars

\* the caller has emptied a day of the mapping it got for one user, whose stored
\* availability still holds that day's slots
C21_Witness ==
    /\ observed.tool = "find_common_availability"
    /\ observed.mutated
    /\ \E uid \in MemIds, day \in Dates :
           /\ observed.args = <<uid>>
           /\ day \in DOMAIN observed.value
           /\ observed.value[day] = <<>>
           /\ day \in DOMAIN USERS[uid].availability
           /\ USERS[uid].availability[day] # <<>>

----------------------------------------------------------------------------
(* Profile updates of both variants side by side: busy-hour rows in the      *)
(* database, availability lists in memory                                    *)

\* update_user_profile_db called for the busy hours of one of two users
UpdateSlotsDb ==
    \E telegram_id \in PrefIds, add_business \in ConcAddBusiness, clear_business \in BOOLEAN :
        UpdateUserProfileDb(telegram_id, <<>>, <<>>, add_business, clear_business)

NextSlots == UpdateSlotsDb \/ UpdateAliasProfile

SpecSlots == Init /\ [][NextSlots]_vars

\* the add lists a call is tried with
AddBusinessLists == SeqsUpTo(ConcSlots, MaxAdd + 1)
AddAvailabilityLists == SeqsUpTo(MemSlots, MaxAdd + 1)

\* the add list as busy-hour rows of one user, in the order of the list
RowsOf(telegram_id, add_business) ==
    [i \in 1..Len(add_business) |->
        [telegram_id |-> telegram_id,
         start |-> <<add_business[i].date, add_business[i].start>>,
         duration |-> add_business[i].duration]]

\* the [start, end] lists of the add list's slots on one day, in the order of the list
RECURSIVE SlotsOn(_, _, _)
SlotsOn(add_availability, day, i) ==
    IF i > Len(add_availability) THEN <<>>
    ELSE (IF add_availability[i].date = day
          THEN <<<<add_availability[i].start, add_availability[i].end>>>> ELSE <<>>)
         \o SlotsOn(add_availability, day, i + 1)

\* the slots stored for a day (none if the day has no entry)
StoredOn(av, day) == IF day \in DOMAIN av THEN av[day] ELSE <<>>

\* C22: after a profile update of user u with the clear flag set, u's stored slots
\* are exactly the slots of that call's add list (old ones are removed first, then
\* the new ones are added); with the flag unset every slot stored before is still
\* there and the added slots follow them. Busy-hour rows in the database variant,
\* availability lists in the in-memory variant.
C22_ClearThenAdd ==
    /\ \A u \in PrefIds : \A add_business \in AddBusinessLists :
           /\ SelectBusyHours(BusyHoursAfterUpdate(busy_hours, u, add_business, TRUE), u)
                  = RowsOf(u, add_business)
           /\ SelectBusyHours(BusyHoursAfterUpdate(busy_hours, u, add_business, FALSE), u)
                  = SelectBusyHours(busy_hours, u) \o RowsOf(u, add_business)
    /\ \A u \in MemIds : \A add_availability \in AddAvailabilityLists :
           LET cleared == UsersAfterMemUpdate(USERS, u, <<>>, <<>>, add_availability, TRUE)[u].availability
               kept == UsersAfterMemUpdate(USERS, u, <<>>, <<>>, add_availability, FALSE)[u].availability
           IN /\ DOMAIN cleared = {add_availability[i].date : i \in 1..Len(add_availability)}
              /\ \A day \in Dates : StoredOn(cleared, day) = SlotsOn(add_availability, day, 1)
              /\ \A day \in Dates :
                     StoredOn(kept, day) = StoredOn(USERS[u].availability, day) \o SlotsOn(add_availability, day, 1)

\* both stores hold slots of a user, so a clearing update has something to remove
\* and a keeping update something to keep
C22_Witness ==
    /\ \E u \in PrefIds : Len(SelectBusyHours(busy_hours, u)) >= 1 /\ Len(busy_hours) >= 2
    /\ \E u \in MemIds : SlotCount(USERS[u].availability) >= 1

----------------------------------------------------------------------------
(* The date order of the retrieval-backed personal suggestions *)

\* the returned events are in ascending date order: chronological between dates
\* strptime parses; the unparseable dates of the model are one and the same string
AscendingDates(events) ==
    \A i, j \in 1..Len(events) :
        (i < j /\ StrpTime(events[i].event_date).parsed /\ StrpTime(events[j].event_date).parsed)
            => DateTimeRank(StrpTime(events[i].event_date)) <= DateTimeRank(StrpTime(events[j].event_date))

\* C23: get_personal_event_suggestions_db returns its deduplicated events in
\* ascending date order for every collection of event_date strings, and the sort
\* does not fail, also when parseable and unparseable dates occur together.
C23_SortNeverFails ==
    sugg_ret.tool = "get_personal_event_suggestions_db" =>
        /\ sugg_ret.raised = ""
        /\ Len(ReturnedEvents(sugg_ret)) = Len(DedupSeen(rag_result, 1, {}, <<>>))
        /\ AscendingDates(ReturnedEvents(sugg_ret))

----------------------------------------------------------------------------
(* The order of the steps of a run of the agent graph *)

\* the last message is an AI message that carries tool calls
LastHasToolCalls(msgs) == msgs[Len(msgs)].type = "ai" /\ Len(msgs[Len(msgs)].tool_calls) > 0

\* C24: in every run of the agent graph the first step is the assistant node; after
\* an assistant step control goes to the tools node if and only if the last AI
\* message carries tool calls and otherwise the run ends; every tools step is
\* followed by an assistant step; llm_calls increases by exactly one per assistant
\* step and is unchanged by a tools step.
C24_StepOrder ==
    /\ graph_pc = "assistant"
    /\ [][/\ graph_pc = "assistant" =>
                /\ llm_calls' = llm_calls + 1
                /\ graph_pc' = "tools" <=> LastHasToolCalls(messages')
                /\ graph_pc' = "end" <=> ~LastHasToolCalls(messages')
          /\ graph_pc = "tools" =>
                /\ graph_pc' = "assistant"
                /\ llm_calls' = llm_calls]_vars

----------------------------------------------------------------------------
(* Teams (src/bot.py): Create Team requests of several chats run side by     *)
(* side, each from one await to the next                                     *)

\* the most rows table teams holds
MaxTeams == 2

\* the codes random.randint(100000, 999999) may draw
TeamCodes == {123456, 654321}

\* the team codes of the rows of table teams
UsedCodes(rows) == {rows[i].team_id : i \in 1..Len(rows)}

\* SELECT id FROM teams WHERE team_id = ?: the row id, or 0 for no row
TeamRowId(rows, code) ==
    IF code \in UsedCodes(rows) THEN CHOOSE i \in 1..Len(rows) : rows[i].team_id = code ELSE 0

\* on_create_team is entered and generate_unique_team_code returns: it draws codes
\* until the SELECT finds no team row with the code drawn
GenerateUniqueTeamCode(tg_id) ==
    /\ team_req[tg_id].pc \in {"idle", "done", "failed"}
    /\ Len(teams) < MaxTeams
    /\ \E code \in TeamCodes :
           /\ TeamRowId(teams, code) = 0
           /\ team_req' = [team_req EXCEPT ![tg_id] = [pc |-> "insert", code |-> code, team_row_id |-> 0]]
    /\ UNCHANGED <<teams, team_of, storeVars, botVars, algVars, memVars, suggVars, nodeVars, concVars, raceVars>>

\* create_team_and_assign, step 1: INSERT INTO teams, commit, SELECT id. team_id is
\* UNIQUE, so the INSERT of a code that a row already holds raises IntegrityError,
\* which on_create_team catches ("Sorry, something went wrong ...")
InsertTeam(tg_id) ==
    /\ team_req[tg_id].pc = "insert"
    /\ IF team_req[tg_id].code \in UsedCodes(teams)
       THEN /\ team_req' = [team_req EXCEPT ![tg_id].pc = "failed"]
            /\ UNCHANGED teams
       ELSE /\ teams' = Append(teams, [team_id |-> team_req[tg_id].code])
            /\ team_req' = [team_req EXCEPT ![tg_id].pc = "assign",
                                            ![tg_id].team_row_id = TeamRowId(teams', team_req[tg_id].code)]
    /\ UNCHANGED <<team_of, storeVars, botVars, algVars, memVars, suggVars, nodeVars, concVars, raceVars>>

\* create_team_and_assign, step 2: ensure_user, UPDATE users SET team_id, commit;
\* then on_create_team answers and clears the conversation state
AssignCreator(tg_id) ==
    /\ team_req[tg_id].pc = "assign"
    /\ users' = IF users[tg_id].present THEN users ELSE [users EXCEPT ![tg_id] = NewRow]
    /\ team_of' = [team_of EXCEPT ![tg_id] = team_req[tg_id].team_row_id]
    /\ fsm_state' = [fsm_state EXCEPT ![tg_id] = "none"]
    /\ team_req' = [team_req EXCEPT ![tg_id].pc = "done"]
    /\ UNCHANGED <<teams, busy_hours, algVars, memVars, suggVars, nodeVars, concVars, raceVars>>

\* the message texts sent while the bot waits for a team code
TeamTexts == {"123456", " 123456 ", "654321", "12345", "team42", ""}

\* (message.text or "").strip()
StripText(text) == IF text = " 123456 " THEN "123456" ELSE text

\* TEAM_CODE_RE.match(text) with TEAM_CODE_RE = ^\d{6}$
MatchesTeamCodeRe(text) == text \in {"123456", "654321"}

\* int(team_code_text) of a text the pattern matches
IntOfText(text) == IF text = "123456" THEN 123456 ELSE 654321

\* find_team_row_id_by_code(team_code_text): teams.id, or 0 for None
FindTeamRowIdByCode(rows, team_code_text) ==
    IF ~MatchesTeamCodeRe(team_code_text) THEN 0 ELSE TeamRowId(rows, IntOfText(team_code_text))

\* the path on_assign_team_code_input takes for a text
CodeInputPath(rows, text) ==
    IF ~MatchesTeamCodeRe(StripText(text)) THEN "bad_format"
    ELSE IF FindTeamRowIdByCode(rows, StripText(text)) = 0 THEN "unknown_team"
    ELSE "assign"

\* the outcomes of the two awaited database calls of the handler: the lookup in
\* teams.sqlite (outside the try) returns or raises; the assignment in users.sqlite
\* (inside the try) commits, or raises before ensure_user has inserted the row, or
\* raises after it and before the UPDATE is committed
LookupOutcomes == {"returned", "raised"}
AssignOutcomes == {"committed", "raised_early", "raised_late"}

\* on_assign_team: the bot asks for the code and waits for it
OnAssignTeam(tg_id) ==
    /\ fsm_state' = [fsm_state EXCEPT ![tg_id] = "WAITING_TEAM_CODE"]
    /\ UNCHANGED <<users, busy_hours, algVars, memVars, suggVars, nodeVars, concVars, teamVars, raceVars>>

\* on_assign_team_code_input for a message in state WAITING_TEAM_CODE; observed
\* records the message and the answer the bot sent ("none" if the handler raised)
OnAssignTeamCodeInput(tg_id, text) ==
    /\ fsm_state[tg_id] = "WAITING_TEAM_CODE"
    /\ LET path == CodeInputPath(teams, text)
           team_row_id == FindTeamRowIdByCode(teams, StripText(text))
           ensured == IF users[tg_id].present THEN users ELSE [users EXCEPT ![tg_id] = NewRow]
           Answer(reply) == observed' = [tool |-> "on_assign_team_code_input",
                                         telegram_id |-> tg_id, text |-> text, reply |-> reply]
       IN \/ /\ path = "bad_format"
             /\ fsm_state' = [fsm_state EXCEPT ![tg_id] = "none"]
             /\ Answer("format_incorrect")
             /\ UNCHANGED <<users, team_of>>
          \/ /\ path # "bad_format"
             /\ \E lookup \in LookupOutcomes :
                    IF lookup = "raised"
                    THEN /\ Answer("none")
                         /\ UNCHANGED <<fsm_state, users, team_of>>
                    ELSE IF path = "unknown_team"
                    THEN /\ fsm_state' = [fsm_state EXCEPT ![tg_id] = "none"]
                         /\ Answer("does_not_exist")
                         /\ UNCHANGED <<users, team_of>>
                    ELSE \E outcome \in AssignOutcomes :
                         /\ fsm_state' = [fsm_state EXCEPT ![tg_id] = "none"]
                         /\ users' = IF outcome = "raised_early" THEN users ELSE ensured
                         /\ team_of' = IF outcome = "committed"
                                       THEN [team_of EXCEPT ![tg_id] = team_row_id] ELSE team_of
                         /\ Answer(IF outcome = "committed" THEN "assigned" ELSE "went_wrong")
    /\ UNCHANGED <<busy_hours, teams, team_req, upd_pc, upd_call, algVars, memVars, suggVars, nodeVars, raceVars>>

NextTeams ==
    \/ \E tg_id \in TeamUsers : GenerateUniqueTeamCode(tg_id)
    \/ \E tg_id \in TeamUsers : InsertTeam(tg_id)
    \/ \E tg_id \in TeamUsers : AssignCreator(tg_id)
    \/ \E tg_id \in TeamUsers : OnAssignTeam(tg_id)
    \/ \E tg_id \in TeamUsers, text \in TeamTexts : OnAssignTeamCodeInput(tg_id, text)

SpecTeams == Init /\ [][NextTeams]_vars

\* C25: in every interleaving of concurrent Create Team requests, the code that
\* generate_unique_team_code returned is used by no existing team when
\* create_team_and_assign inserts the team row; so no two teams share a team code
\* and no request fails on a duplicate code.
C25_CodeUnusedAtInsert ==
    /\ \A tg_id \in TeamUsers :
           team_req[tg_id].pc = "insert" => team_req[tg_id].code \notin UsedCodes(teams)
    /\ \A i, j \in 1..Len(teams) : teams[i].team_id = teams[j].team_id => i = j
    /\ \A tg_id \in TeamUsers : team_req[tg_id].pc # "failed"

----------------------------------------------------------------------------
(* Two update_user_profile_db calls for one user side by side, each from one *)
(* await to the next: the SELECT of the preferences, then the UPDATE         *)

\* the user both calls are about, and the tag each call adds
RaceUser == 1
RaceTags == [c \in CallIds |-> IF c = "a" THEN {"Sport", "meetups"} ELSE {"music", "TECH"}]

\* /start from the user's chat
RaceStart == OnStart(RaceUser)

\* the agent calls update_user_profile_db(telegram_id, add_preferences=[tag]);
\* had_row notes whether the user had a users row when the call was made
BeginCall(c) ==
    /\ upd_calls[c].pc \in {"idle", "done"}
    /\ \E tag \in RaceTags[c] :
           upd_calls' = [upd_calls EXCEPT ![c] =
                            [pc |-> "load", telegram_id |-> RaceUser, tag |-> tag,
                             had_row |-> users[RaceUser].present, existing_prefs |-> {}]]
    /\ UNCHANGED <<storeVars, botVars, algVars, memVars, suggVars, nodeVars, concVars, teamVars>>

\* "Load existing preferences" and "Apply changes" (lines 156-173)
LoadCall(c) ==
    /\ upd_calls[c].pc = "load"
    /\ upd_calls' = [upd_calls EXCEPT ![c].pc = "save",
                                      ![c].existing_prefs =
                                          UpdatedPrefs(users, upd_calls[c].telegram_id, <<upd_calls[c].tag>>, <<>>)]
    /\ UNCHANGED <<storeVars, botVars, algVars, memVars, suggVars, nodeVars, concVars, teamVars>>

\* "Save preferences": UPDATE and commit (lines 176-181); the call adds and clears
\* no busy hours, so nothing else is written before it returns
SaveCall(c) ==
    /\ upd_calls[c].pc = "save"
    /\ users' = UpdatePrefsRow(users, upd_calls[c].telegram_id, SerializePrefs(upd_calls[c].existing_prefs))
    /\ upd_calls' = [upd_calls EXCEPT ![c].pc = "done"]
    /\ UNCHANGED <<busy_hours, botVars, algVars, memVars, suggVars, nodeVars, concVars, teamVars>>

NextRace ==
    \/ RaceStart
    \/ \E c \in CallIds : BeginCall(c)
    \/ \E c \in CallIds : LoadCall(c)
    \/ \E c \in CallIds : SaveCall(c)

SpecRace == Init /\ [][NextRace]_vars

\* C26: when two update_user_profile_db calls for the same user run concurrently,
\* each adding a different tag, the stored preference set after both have completed
\* contains both tags in every interleaving (no update is lost).
C26_NoLostUpdate ==
    (\A c \in CallIds : upd_calls[c].pc = "done" /\ upd_calls[c].had_row) =>
        \A c \in CallIds : Lower(upd_calls[c].tag) \in LoadPrefs(users, RaceUser)

----------------------------------------------------------------------------
(* Shared availability against the busy hours it is computed from *)

\* the busy slots of a user on a day (none if the user has no row on that day)
BusyOn(rows, telegram_id, day) ==
    LET busy == BusyByDate(rows, telegram_id)
    IN IF day \in DOMAIN busy THEN busy[day] ELSE <<>>

\* the times of the day window on the grid of the stored slots
WindowTimes == {t \in StoreTimes : DayStart <= t /\ t < DayEnd}

\* C27: for every date d and every time t of the day window, if no listed
\* participant has a busy slot covering t on d and at least one participant has
\* some busy slot on d, then the result of find_common_availability for d covers t;
\* a participant without a busy slot on d counts as free for the whole window on d.
C27_FreeForAllIsCommon ==
    LET free_of == FreeSlotsOf(busy_hours)
    IN \A ids \in IdLists \ {<<>>} : \A d \in Dates : \A t \in WindowTimes :
           ( /\ \A n \in 1..Len(ids) : t \notin Coverage(BusyOn(busy_hours, ids[n], d), StoreTimes)
             /\ \E n \in 1..Len(ids) : Len(BusyOn(busy_hours, ids[n], d)) > 0 )
           => LET common == FindCommonAvailability(free_of, ids)
              IN d \in DOMAIN common /\ t \in Coverage(common[d], StoreTimes)

----------------------------------------------------------------------------
(* Joint suggestions against personal suggestions (in-memory variant) *)

\* C28: for every list of at least two users and every state of the in-memory
\* store, every event get_joint_event_suggestions(user_ids) returns is also
\* returned by get_personal_event_suggestions(u) for each listed user u.
C28_JointWithinPersonal ==
    \A user_ids \in MemIdLists :
        Len(user_ids) >= 2 =>
            LET joint == GetJointEventSuggestions(USERS, EVENTS, user_ids).events
            IN \A n \in 1..Len(user_ids) :
                   Range(joint) \subseteq Range(GetPersonalEventSuggestions(USERS, EVENTS, user_ids[n]).events)

----------------------------------------------------------------------------
(* The summary of update_user_profile_db against what the reader tools return *)

\* C29: after update_user_profile_db returned a summary listing preferences P and
\* busy_hours_count n for a telegram id, and with no other update in between,
\* get_user_preferences_db returns exactly P for that id and get_user_busy_hours_db
\* exactly n rows, also for a telegram id without a row in table users.
C29_SummaryAgreesWithReaders ==
    (observed.tool = "update_user_profile_db" /\ upd_pc = "idle") =>
        /\ GetUserPreferencesDb(users, observed.telegram_id).preferences = observed.payload.preferences
        /\ GetUserBusyHoursDb(busy_hours, observed.telegram_id).busy_hours_count
               = observed.payload.busy_hours_count
        /\ Len(GetUserBusyHoursDb(busy_hours, observed.telegram_id).busy_hours)
               = observed.payload.busy_hours_count

----------------------------------------------------------------------------
(* The team-code handler *)

\* the text, trimmed as the handler trims it, is exactly six digits
SixDigits(text) == StripText(text) \in {"123456", "654321"}

\* the row id of the team whose code the text spells, or 0 if there is none
TeamOfText(rows, text) ==
    IF \E i \in 1..Len(rows) : rows[i].team_id = IntOfText(StripText(text))
    THEN CHOOSE i \in 1..Len(rows) : rows[i].team_id = IntOfText(StripText(text))
    ELSE 0

\* C30: after the team-code handler has handled a message received in state
\* WAITING_TEAM_CODE, the conversation state is cleared on every path (bad format,
\* unknown team, success, assignment failure), and the user's team_id is changed
\* only when the text is exactly six digits and a team with that code exists, in
\* which case it becomes that team's row id.
C30_CodeInputClearsAndAssigns ==
    [][\A tg_id \in TeamUsers : \A text \in TeamTexts :
           OnAssignTeamCodeInput(tg_id, text) =>
               /\ fsm_state'[tg_id] = "none"
               /\ team_of'[tg_id] # team_of[tg_id] =>
                      /\ SixDigits(text)
                      /\ TeamOfText(teams, text) # 0
                      /\ team_of'[tg_id] = TeamOfText(teams, text)
               /\ \A other \in Ids \ {tg_id} : team_of'[other] = team_of[other]]_vars

\* the four paths the handler answers on: it has cleared the state on each of
\* them, and the stored team changed only on the path that answers "assigned"
AnsweredPathsClear ==
    [][\A tg_id \in TeamUsers : \A text \in TeamTexts :
           (OnAssignTeamCodeInput(tg_id, text) /\ observed'.reply # "none") =>
               /\ fsm_state'[tg_id] = "none"
               /\ observed'.reply = "assigned" =>
                      (SixDigits(text) /\ TeamOfText(teams, text) # 0
                           /\ team_of'[tg_id] = TeamOfText(teams, text)
                           /\ users'[tg_id].present)
               /\ observed'.reply # "assigned" => team_of' = team_of]_vars

\* a chat that created no team sent an existing code and is now in that team
CodeAccepted ==
    \E tg_id \in TeamUsers :
        /\ team_req[tg_id].pc = "idle"
        /\ observed.tool = "on_assign_team_code_input"
        /\ observed.telegram_id = tg_id
        /\ observed.reply = "assigned"
        /\ team_of[tg_id] # 0
        /\ fsm_state[tg_id] = "none"

====
